---- MODULE Spec2Model ----
(***************************************************************************)
(* QuickBooks Online MCP server (qbo-mcp): navigation state machine, tool *)
(* router, HTTP credential handling and the shared upstream client.       *)
(*                                                                         *)
(* Operation names are modelled as the sequence of their "_"-separated    *)
(* tokens ("qbo_customers_list" is <<"qbo", "customers", "list">>), so     *)
(* that String.startsWith is computed and not assumed.                     *)
(***************************************************************************)
EXTENDS Integers, Sequences, FiniteSets, TLC

MaxNameLen == 3   \* tokens in a generated operation name
MaxPage == 2      \* largest page size for which full batches are generated
MaxItems == 5     \* items the upstream service returns to one paginated fetch
MaxStore == 6     \* entities an upstream service with a fixed content holds
PairItems == 2    \* the same, for each of two fetches in flight together
\* Number of inbound requests that can be in flight at the same time.
MaxCalls == 2
\* Number of requests remembered by the history variable (plus one listing).
HistLen == 2

Calls == 1..MaxCalls

\* JavaScript null and undefined.
Null == "<null>"
Undefined == "<undefined>"

\* !v for the values a header or an environment variable can hold.
Falsy(v) == v = Undefined \/ v = ""

Range(s) == {s[i] : i \in 1..Len(s)}

(***************************************************************************)
(* Domains and operation descriptors                                       *)
(***************************************************************************)
Domain == {"customers", "invoices", "expenses", "payments", "reports"}

customerTools ==
    << <<"qbo", "customers", "list">>, <<"qbo", "customers", "get">>,
       <<"qbo", "customers", "create">>, <<"qbo", "customers", "search">> >>

\* Variant of the invoice list whose first descriptor repeats a customer name.
invoiceToolsRepeatingCustomerList ==
    << <<"qbo", "customers", "list">>, <<"qbo", "invoices", "get">>,
       <<"qbo", "invoices", "create">>, <<"qbo", "invoices", "send">> >>

invoiceTools ==
    << <<"qbo", "invoices", "list">>, <<"qbo", "invoices", "get">>,
       <<"qbo", "invoices", "create">>, <<"qbo", "invoices", "send">> >>

expenseTools ==
    << <<"qbo", "expenses", "list", "purchases">>, <<"qbo", "expenses", "list", "bills">>,
       <<"qbo", "expenses", "get", "purchase">>, <<"qbo", "expenses", "get", "bill">> >>

paymentTools ==
    << <<"qbo", "payments", "list">>, <<"qbo", "payments", "get">>,
       <<"qbo", "payments", "create">> >>

reportTools ==
    << <<"qbo", "reports", "profit", "and", "loss">>, <<"qbo", "reports", "balance", "sheet">>,
       <<"qbo", "reports", "aged", "receivables">>, <<"qbo", "reports", "aged", "payables">>,
       <<"qbo", "reports", "customer", "sales">> >>

navigateTool == <<"qbo", "navigate">>
backTool == <<"qbo", "back">>

\* getDomainTools: the switch has no default, so any other value yields undefined.
getDomainTools(domain) ==
    CASE domain = "customers" -> [defined |-> TRUE, tools |-> customerTools]
      [] domain = "invoices"  -> [defined |-> TRUE, tools |-> invoiceTools]
      [] domain = "expenses"  -> [defined |-> TRUE, tools |-> expenseTools]
      [] domain = "payments"  -> [defined |-> TRUE, tools |-> paymentTools]
      [] domain = "reports"   -> [defined |-> TRUE, tools |-> reportTools]
      [] OTHER                -> [defined |-> FALSE, tools |-> <<>>]

\* Variant of the handlers' switches in which qbo_invoices_send has no case.
HandlerCasesWithoutSend(domain) ==
    Range(getDomainTools(domain).tools) \ {<<"qbo", "invoices", "send">>}

\* The case labels of each domain handler's switch.
HandlerCases(domain) ==
    CASE domain = "customers" ->
           { <<"qbo", "customers", "list">>, <<"qbo", "customers", "get">>,
             <<"qbo", "customers", "create">>, <<"qbo", "customers", "search">> }
      [] domain = "invoices" ->
           { <<"qbo", "invoices", "list">>, <<"qbo", "invoices", "get">>,
             <<"qbo", "invoices", "create">>, <<"qbo", "invoices", "send">> }
      [] domain = "expenses" ->
           { <<"qbo", "expenses", "list", "purchases">>, <<"qbo", "expenses", "list", "bills">>,
             <<"qbo", "expenses", "get", "purchase">>, <<"qbo", "expenses", "get", "bill">> }
      [] domain = "payments" ->
           { <<"qbo", "payments", "list">>, <<"qbo", "payments", "get">>,
             <<"qbo", "payments", "create">> }
      [] domain = "reports" ->
           { <<"qbo", "reports", "profit", "and", "loss">>, <<"qbo", "reports", "balance", "sheet">>,
             <<"qbo", "reports", "aged", "receivables">>, <<"qbo", "reports", "aged", "payables">>,
             <<"qbo", "reports", "customer", "sales">> }
      [] OTHER -> {}

\* Variant of the prefix test that looks at "qbo_" only.
StartsWithQbo(name, domain) ==
    /\ Len(name) >= 3
    /\ name[1] = "qbo"

\* name.startsWith("qbo_<domain>_"): the trailing "_" of the prefix means the
\* name has at least one more token (possibly empty) after the domain token.
StartsWith(name, domain) ==
    /\ Len(name) >= 3
    /\ name[1] = "qbo"
    /\ name[2] = domain

(***************************************************************************)
(* Inputs                                                                  *)
(***************************************************************************)
\* The X-Qbo-Access-Token / X-Qbo-Realm-Id headers of an inbound request
\* (absent = undefined): none, one of the two, an empty token, or the pair of
\* tenant A or B.
HeaderPairs ==
    {[accessToken |-> Undefined, realmId |-> Undefined],
     [accessToken |-> "tokA", realmId |-> Undefined],
     [accessToken |-> Undefined, realmId |-> "realmB"],
     [accessToken |-> "", realmId |-> "realmA"],
     [accessToken |-> "tokA", realmId |-> "realmA"],
     [accessToken |-> "tokB", realmId |-> "realmB"]}

\* request.params.arguments of a call: absent, or an object whose domain
\* property is a domain, an out-of-enum string, or missing.
NavArgs ==
    {[present |-> FALSE, domain |-> Undefined]}
      \cup [present : {TRUE}, domain : Domain \cup {"bogus", Undefined}]

NoArgs == [present |-> TRUE, domain |-> Undefined]

ToolNames ==
    Range(customerTools) \cup Range(invoiceTools) \cup Range(expenseTools)
      \cup Range(paymentTools) \cup Range(reportTools)

\* Names a caller may send: every advertised name, a name inside a domain
\* namespace that no handler knows, and a name outside every namespace.
\* Names built from the tokens the advertised names are made of, to put to the
\* router: every sequence of at most MaxNameLen tokens, and the advertised names.
NameTokens == {"qbo", "navigate", "back", "list", ""} \cup Domain

RouteNames ==
    ToolNames \cup UNION {[1..n -> NameTokens] : n \in 1..MaxNameLen}

OutsideNames == {<<"qbo", "payments">>, <<"bogus">>}

CallNames ==
    ToolNames \cup {navigateTool, backTool}
      \cup {<<"qbo", "customers", "bogus">>} \cup OutsideNames

(***************************************************************************)
(* State                                                                   *)
(***************************************************************************)
VARIABLES
    transport,      \* "stdio" | "http", fixed at start (MCP_TRANSPORT)
    authMode,       \* "env" | "gateway", fixed at start (AUTH_MODE)
    env,            \* process.env: QBO_ACCESS_TOKEN, QBO_REALM_ID
    client,         \* the singleton _client of utils/client.ts
    currentDomain,  \* state.currentDomain
    calls,          \* the inbound requests in flight
    hist,           \* history variable: the most recent requests, oldest first
    probe,          \* an operation name given to the router, and where it went
    fetch,          \* one QboClient.getPaginated invocation and its upstream rounds
    other,          \* a second getPaginated invocation, in flight next to the first
    opCall,         \* one operation call with its upstream exchange and its result
    store           \* the entities the upstream service holds for a query, in position order

vars == <<transport, authMode, env, client, currentDomain, calls, hist, probe, fetch,
          other, opCall, store>>

NoPair == [accessToken |-> Undefined, realmId |-> Undefined]
NullClient == [made |-> FALSE, config |-> NoPair]

IdleCall ==
    [pc |-> "idle", accessToken |-> Undefined, realmId |-> Undefined,
     sent |-> NoPair, required |-> {}]

\* JSON values: null, or an object with its members in order.
JNull == [type |-> "null", members |-> <<>>]
JObject(members) == [type |-> "object", members |-> members]

NoError == [kind |-> "none", method |-> "", path |-> <<>>, status |-> 0, body |-> "",
            named |-> <<>>]
NoRequest == [method |-> "", path |-> <<>>, sql |-> <<>>, credential |-> NoPair]
NoResponse == [kind |-> "none", status |-> 0, body |-> ""]
NoOutcome == [threw |-> FALSE, error |-> NoError, value |-> JNull]
NoResult == [isError |-> FALSE, fault |-> FALSE, error |-> NoError, text |-> <<>>]
NoOpArgs == [id |-> Undefined, status |-> Undefined, startDate |-> Undefined,
             endDate |-> Undefined]

\* No operation call is being handled.
NoCall ==
    [pc |-> "idle", name |-> <<>>, navArgs |-> NoArgs, args |-> NoOpArgs,
     request |-> NoRequest, attempts |-> 0, response |-> NoResponse,
     outcome |-> NoOutcome, result |-> NoResult]

\* No name has been given to the router.
NoProbe == [name |-> <<>>, route |-> "none", matches |-> {}]

\* No paginated fetch has been started.
NoFetch ==
    [pc |-> "idle", given |-> FALSE, maxResults |-> 0, startPosition |-> 0,
     hasMore |-> FALSE, allItems |-> <<>>, log |-> <<>>]


(***************************************************************************)
(* utils/client.ts: the shared client                                      *)
(***************************************************************************)
\* Variant of getClient that rebuilds the client from process.env on every call.
IgnoreCachedClient(cl, e) ==
    IF Falsy(e.QBO_ACCESS_TOKEN) \/ Falsy(e.QBO_REALM_ID)
    THEN [threw |-> TRUE, client |-> cl]
    ELSE [threw |-> FALSE,
          client |-> [made |-> TRUE,
                      config |-> [accessToken |-> e.QBO_ACCESS_TOKEN,
                                  realmId |-> e.QBO_REALM_ID]]]

\* getClient(): build the singleton from process.env unless one exists; throws
\* (leaving _client null) when either variable is unset or empty.
getClient(cl, e) ==
    IF ~cl.made
    THEN IF Falsy(e.QBO_ACCESS_TOKEN) \/ Falsy(e.QBO_REALM_ID)
         THEN [threw |-> TRUE, client |-> cl]
         ELSE [threw |-> FALSE,
               client |-> [made |-> TRUE,
                           config |-> [accessToken |-> e.QBO_ACCESS_TOKEN,
                                       realmId |-> e.QBO_REALM_ID]]]
    ELSE [threw |-> FALSE, client |-> cl]

\* Variant of resetClient that leaves the singleton in place.
KeepClient(cl) == cl

\* resetClient(): _client = null.
resetClient(cl) == NullClient

\* Variant of request that reads the credential pair from process.env when it
\* sends.
RequestCredentialFromEnv(cl) ==
    [accessToken |-> env.QBO_ACCESS_TOKEN, realmId |-> env.QBO_REALM_ID]

\* QboClient.request builds the Authorization header and the base URL from the
\* config the client was constructed with.
RequestCredential(cl) == cl.config

\* process.env.X = v stores the string form of v.
EnvStr(v) == IF v = Undefined THEN "undefined" ELSE v

(***************************************************************************)
(* index.ts: HTTP front end                                                *)
(***************************************************************************)
\* Variant of the header test with && for ||.
BothHeadersMissing(accessToken, realmId) == Falsy(accessToken) /\ Falsy(realmId)

\* if (!accessToken || !realmId)
HeadersMissing(accessToken, realmId) == Falsy(accessToken) \/ Falsy(realmId)

\* Variant of the 401 body that lists only the absent headers.
OnlyMissingHeaders(accessToken, realmId) ==
    (IF Falsy(accessToken) THEN {"X-Qbo-Access-Token"} ELSE {})
      \cup (IF Falsy(realmId) THEN {"X-Qbo-Realm-Id"} ELSE {})

\* The header names listed in the body of the 401 response.
UnauthorizedRequired(accessToken, realmId) == {"X-Qbo-Access-Token", "X-Qbo-Realm-Id"}

(***************************************************************************)
(* index.ts: listing, navigation and routing                               *)
(***************************************************************************)
\* Variant of the listing that advertises qbo_navigate in a domain too.
ListAlwaysNavigate(cur) ==
    LET dt == getDomainTools(cur) IN
    IF cur = Null THEN [threw |-> FALSE, tools |-> <<navigateTool>>]
    ELSE IF dt.defined THEN [threw |-> FALSE, tools |-> <<navigateTool, backTool>> \o dt.tools]
    ELSE [threw |-> TRUE, tools |-> <<>>]

\* ListTools handler: spreading an undefined tool list throws.
ListTools(cur) ==
    LET dt == getDomainTools(cur) IN
    IF cur = Null THEN [threw |-> FALSE, tools |-> <<navigateTool>>]
    ELSE IF dt.defined THEN [threw |-> FALSE, tools |-> <<backTool>> \o dt.tools]
    ELSE [threw |-> TRUE, tools |-> <<>>]

\* Variant of qbo_navigate that selects a domain only from Root.
NavigateFromRootOnly(args, cur) ==
    IF ~args.present THEN [currentDomain |-> cur, isError |-> TRUE]
    ELSE [currentDomain |-> IF cur = Null THEN args.domain ELSE cur,
          isError |-> ~getDomainTools(args.domain).defined]

\* qbo_navigate: destructuring absent arguments throws before the assignment;
\* otherwise the state is assigned first and getDomainTools(domain).map throws
\* afterwards when the domain is not one of the five.
Navigate(args, cur) ==
    IF ~args.present THEN [currentDomain |-> cur, isError |-> TRUE]
    ELSE [currentDomain |-> args.domain,
          isError |-> ~getDomainTools(args.domain).defined]

\* Variant of qbo_back that leaves Root when called there.
BackToggles(cur) ==
    [currentDomain |-> IF cur = Null THEN "customers" ELSE Null, isError |-> FALSE]

\* qbo_back
Back(cur) == [currentDomain |-> Null, isError |-> FALSE]

\* Variant of the router that takes "qbo_<domain>" for the domain's prefix.
RouteLoosePrefix(name) ==
    IF name = navigateTool THEN "navigate"
    ELSE IF name = backTool THEN "back"
    ELSE IF Len(name) >= 2 /\ name[1] = "qbo" /\ name[2] \in Domain THEN name[2]
    ELSE "unknown"

\* The router's chain of tests, in source order.
Route(name) ==
    IF name = navigateTool THEN "navigate"
    ELSE IF name = backTool THEN "back"
    ELSE IF StartsWith(name, "customers") THEN "customers"
    ELSE IF StartsWith(name, "invoices") THEN "invoices"
    ELSE IF StartsWith(name, "expenses") THEN "expenses"
    ELSE IF StartsWith(name, "payments") THEN "payments"
    ELSE IF StartsWith(name, "reports") THEN "reports"
    ELSE "unknown"

\* handle<Domain>Tool: getClient() first, then the switch on the name; every
\* case issues one upstream request, the default returns a failed result.
HandleDomainTool(domain, name, cl, e) ==
    LET gc == getClient(cl, e) IN
    IF gc.threw
    THEN [client |-> cl, isError |-> TRUE, upstream |-> FALSE, credential |-> NoPair]
    ELSE IF name \in HandlerCases(domain)
    THEN [client |-> gc.client, isError |-> FALSE, upstream |-> TRUE,
          credential |-> RequestCredential(gc.client)]
    ELSE [client |-> gc.client, isError |-> TRUE, upstream |-> FALSE, credential |-> NoPair]

\* The result for a name no test of the router matches: a failed result
\* whose text names the requested operation.
UnknownToolResult(name) == [isError |-> TRUE, named |-> name]

\* Variant of the CallTool handler that serves a domain operation only in its
\* own domain.
CallToolInDomainOnly(name, args, cur, cl, e) ==
    LET r == Route(name) IN
    IF r = "navigate"
    THEN LET n == Navigate(args, cur) IN
         [currentDomain |-> n.currentDomain, client |-> cl, isError |-> n.isError,
          upstream |-> FALSE, credential |-> NoPair]
    ELSE IF r = "back"
    THEN LET b == Back(cur) IN
         [currentDomain |-> b.currentDomain, client |-> cl, isError |-> b.isError,
          upstream |-> FALSE, credential |-> NoPair]
    ELSE IF r = "unknown" \/ r # cur
    THEN [currentDomain |-> cur, client |-> cl,
          isError |-> UnknownToolResult(name).isError,
          upstream |-> FALSE, credential |-> NoPair]
    ELSE LET h == HandleDomainTool(r, name, cl, e) IN
         [currentDomain |-> cur, client |-> h.client, isError |-> h.isError,
          upstream |-> h.upstream, credential |-> h.credential]

\* Variant of the CallTool handler in which a domain operation also selects
\* its domain.
CallToolSelectsDomain(name, args, cur, cl, e) ==
    LET r == Route(name) IN
    IF r = "navigate"
    THEN LET n == Navigate(args, cur) IN
         [currentDomain |-> n.currentDomain, client |-> cl, isError |-> n.isError,
          upstream |-> FALSE, credential |-> NoPair]
    ELSE IF r = "back"
    THEN LET b == Back(cur) IN
         [currentDomain |-> b.currentDomain, client |-> cl, isError |-> b.isError,
          upstream |-> FALSE, credential |-> NoPair]
    ELSE IF r = "unknown"
    THEN [currentDomain |-> cur, client |-> cl,
          isError |-> UnknownToolResult(name).isError,
          upstream |-> FALSE, credential |-> NoPair]
    ELSE LET h == HandleDomainTool(r, name, cl, e) IN
         [currentDomain |-> r, client |-> h.client, isError |-> h.isError,
          upstream |-> h.upstream, credential |-> h.credential]

\* Variant of the CallTool handler that obtains the shared client before it
\* looks at the name.
CallToolResolvingFirst(name, args, cur, cl, e) ==
    LET r == Route(name)
        gc == getClient(cl, e)
    IN
    IF gc.threw
    THEN [currentDomain |-> cur, client |-> cl, isError |-> TRUE,
          upstream |-> FALSE, credential |-> NoPair]
    ELSE IF r = "navigate"
    THEN LET n == Navigate(args, cur) IN
         [currentDomain |-> n.currentDomain, client |-> gc.client, isError |-> n.isError,
          upstream |-> FALSE, credential |-> NoPair]
    ELSE IF r = "back"
    THEN LET b == Back(cur) IN
         [currentDomain |-> b.currentDomain, client |-> gc.client, isError |-> b.isError,
          upstream |-> FALSE, credential |-> NoPair]
    ELSE IF r = "unknown"
    THEN [currentDomain |-> cur, client |-> gc.client,
          isError |-> UnknownToolResult(name).isError,
          upstream |-> FALSE, credential |-> NoPair]
    ELSE LET h == HandleDomainTool(r, name, cl, e) IN
         [currentDomain |-> cur, client |-> h.client, isError |-> h.isError,
          upstream |-> h.upstream, credential |-> h.credential]

\* CallTool handler up to its first suspension (or its return).
CallTool(name, args, cur, cl, e) ==
    LET r == Route(name) IN
    IF r = "navigate"
    THEN LET n == Navigate(args, cur) IN
         [currentDomain |-> n.currentDomain, client |-> cl, isError |-> n.isError,
          upstream |-> FALSE, credential |-> NoPair]
    ELSE IF r = "back"
    THEN LET b == Back(cur) IN
         [currentDomain |-> b.currentDomain, client |-> cl, isError |-> b.isError,
          upstream |-> FALSE, credential |-> NoPair]
    ELSE IF r = "unknown"
    THEN [currentDomain |-> cur, client |-> cl,
          isError |-> UnknownToolResult(name).isError,
          upstream |-> FALSE, credential |-> NoPair]
    ELSE LET h == HandleDomainTool(r, name, cl, e) IN
         [currentDomain |-> cur, client |-> h.client, isError |-> h.isError,
          upstream |-> h.upstream, credential |-> h.credential]

(***************************************************************************)
(* History of navigation and listing requests (most recent last)           *)
(***************************************************************************)
\* The history holds the last HistLen navigation requests (or upstream
\* requests), followed by the listing request if one ran after them.
Window(h) == IF Len(h) > HistLen THEN Tail(h) ELSE h

WithoutListing(h) ==
    IF h # <<>> /\ h[Len(h)].op = "list" THEN SubSeq(h, 1, Len(h) - 1) ELSE h

Remember(h, entry) ==
    IF entry.op = "list"
    THEN Append(WithoutListing(h), entry)
    ELSE Window(Append(WithoutListing(h), entry))

LogList(cur) ==
    [op |-> "list", arg |-> Undefined, res |-> ListTools(cur).tools,
     err |-> IF ListTools(cur).threw THEN "fault" ELSE "none", to |-> cur,
     headers |-> NoPair, credential |-> NoPair]

LogCall(name, args, out) ==
    [op |-> Route(name), arg |-> IF args.present THEN args.domain ELSE "<absent>",
     res |-> <<>>, err |-> IF out.isError THEN "isError" ELSE "none",
     to |-> out.currentDomain, headers |-> NoPair, credential |-> NoPair]

\* An upstream request: the credential headers of the inbound request that
\* caused it and the credential pair it was sent with.
LogUpstream(call, out) ==
    [op |-> "upstream", arg |-> Undefined, res |-> <<>>, err |-> "none",
     to |-> Null,
     headers |-> [accessToken |-> call.accessToken, realmId |-> call.realmId],
     credential |-> out.credential]

\* A request for a name outside every namespace: the name asked for, followed
\* by the name the result's text gives when the router's fallthrough built it.
LogOutside(name, out) ==
    [op |-> "outside", arg |-> Undefined,
     res |-> <<name>> \o (IF Route(name) = "unknown"
                          THEN <<UnknownToolResult(name).named>> ELSE <<>>),
     err |-> IF out.isError THEN "isError" ELSE "none",
     to |-> Null, headers |-> NoPair, credential |-> NoPair]

IsNavigation(name) == Route(name) \in {"navigate", "back"}

(***************************************************************************)
(* utils/client.ts: the paginated fetch; domains: the list queries         *)
(***************************************************************************)
MAX_PAGE_SIZE == 1000

\* An optional numeric argument: absent, or a number.
Absent == [given |-> FALSE, value |-> 0]
Num(n) == [given |-> TRUE, value |-> n]

\* Page sizes a caller passes to getPaginated: none (the default applies), a
\* small size, the named maximum and one more than it.
PageSizes == {Absent} \cup {Num(n) : n \in 1..MaxPage}
               \cup {Num(MAX_PAGE_SIZE), Num(MAX_PAGE_SIZE + 1)}

\* startPosition / maxResults arguments a caller passes to a list operation.
ListArgs ==
    [startPosition : {Absent, Num(0), Num(1), Num(2)},
     maxResults : {Absent, Num(1), Num(MAX_PAGE_SIZE), Num(MAX_PAGE_SIZE + 1)}]

\* Entities the upstream service returns; two values, so that order and
\* repetition show.
Items == {"a", "b"}

Batches(n) == UNION {[1..k -> Items] : k \in 0..n}

\* What client.query resolves to, or that it rejects: "error" is a non-2xx
\* answer or a transport failure (request throws), "null" a 204 answer,
\* "ok" a JSON object with or without a QueryResponse member; arrays are the
\* array-valued members of QueryResponse in their order (none, one or two).
Pending == [status |-> "pending", hasQueryResponse |-> FALSE, arrays |-> <<>>]

\* A QueryResponse with two array-valued members: a first one of at most one
\* item and a second one of one item.
TwoArrays(room) == {<<b, <<"b">>>> : b \in Batches(IF room > 0 THEN 1 ELSE 0)}

Responses(room) ==
    {[status |-> st, hasQueryResponse |-> FALSE, arrays |-> <<>>] : st \in {"error", "null", "ok"}}
      \cup {[status |-> "ok", hasQueryResponse |-> TRUE, arrays |-> <<>>]}
      \cup {[status |-> "ok", hasQueryResponse |-> TRUE, arrays |-> <<b>>] : b \in Batches(room)}
      \cup {[status |-> "ok", hasQueryResponse |-> TRUE, arrays |-> a] : a \in TwoArrays(room)}

\* Object.values(response.QueryResponse).find(Array.isArray)
Entities(resp) ==
    IF resp.arrays = <<>> THEN [found |-> FALSE, items |-> <<>>]
    ELSE [found |-> TRUE, items |-> resp.arrays[1]]

\* Variant of the pagination clause that counts positions from 0.
PaginatedSqlZeroBased(f) == [startPosition |-> f.startPosition - 1, maxResults |-> f.maxResults]

\* The pagination clause appended to the base query.
PaginatedSql(f) == [startPosition |-> f.startPosition, maxResults |-> f.maxResults]

\* Variant of getPaginated whose default page size is the list default.
getPaginatedStartDefault100(maxResults) ==
    [pc |-> "loop", given |-> maxResults.given,
     maxResults |-> IF maxResults.given THEN maxResults.value ELSE 100,
     startPosition |-> 1, hasMore |-> TRUE, allItems |-> <<>>, log |-> <<>>]

\* getPaginated up to the loop: the default page size, an empty result and
\* the cursor at 1.
getPaginatedStart(maxResults) ==
    [pc |-> "loop", given |-> maxResults.given,
     maxResults |-> IF maxResults.given THEN maxResults.value ELSE MAX_PAGE_SIZE,
     startPosition |-> 1, hasMore |-> TRUE, allItems |-> <<>>, log |-> <<>>]

\* Variant of the accumulation that puts a new batch in front.
PushFirst(allItems, entities) == entities \o allItems

\* allItems.push(...entities)
PushAll(allItems, entities) == allItems \o entities

\* Variant of the last-batch test that also stops on a full batch.
BatchIsLastOrFull(n, maxResults) == n <= maxResults

\* entities.length < maxResults
BatchIsLast(n, maxResults) == n < maxResults

\* Variant of the cursor step that advances by the size of the batch.
NextStartByBatch(startPosition, maxResults, n) == startPosition + n

\* startPosition += maxResults
NextStart(startPosition, maxResults, n) == startPosition + maxResults

\* Variant of the loop body that catches a rejected query and returns what
\* it has collected.
getPaginatedRoundSwallowing(f, resp) ==
    LET logged == [f EXCEPT !.log[Len(f.log)].response = resp]
        e == Entities(resp)
        n == Len(e.items)
    IN
    IF resp.status = "error"
    THEN [logged EXCEPT !.hasMore = FALSE, !.pc = "returned"]
    ELSE IF resp.status = "null"
    THEN [logged EXCEPT !.pc = "threw"]
    ELSE IF resp.hasQueryResponse /\ e.found /\ n > 0
    THEN IF BatchIsLast(n, f.maxResults)
         THEN [logged EXCEPT !.allItems = PushAll(f.allItems, e.items),
                             !.hasMore = FALSE, !.pc = "returned"]
         ELSE [logged EXCEPT !.allItems = PushAll(f.allItems, e.items),
                             !.startPosition = NextStart(f.startPosition, f.maxResults, n),
                             !.pc = "loop"]
    ELSE [logged EXCEPT !.hasMore = FALSE, !.pc = "returned"]

\* One turn of the loop after the query settled: a rejected query, and a
\* null body (whose QueryResponse cannot be read), make getPaginated throw.
getPaginatedRound(f, resp) ==
    LET logged == [f EXCEPT !.log[Len(f.log)].response = resp]
        e == Entities(resp)
        n == Len(e.items)
    IN
    IF resp.status \in {"error", "null"}
    THEN [logged EXCEPT !.pc = "threw"]
    ELSE IF resp.hasQueryResponse /\ e.found /\ n > 0
    THEN IF BatchIsLast(n, f.maxResults)
         THEN [logged EXCEPT !.allItems = PushAll(f.allItems, e.items),
                             !.hasMore = FALSE, !.pc = "returned"]
         ELSE [logged EXCEPT !.allItems = PushAll(f.allItems, e.items),
                             !.startPosition = NextStart(f.startPosition, f.maxResults, n),
                             !.pc = "loop"]
    ELSE [logged EXCEPT !.hasMore = FALSE, !.pc = "returned"]

\* The pagination clause of a list or search handler: defaults 1 and 100,
\* the caller's numbers otherwise.
ListQuery(args) ==
    [startPosition |-> IF args.startPosition.given THEN args.startPosition.value ELSE 1,
     maxResults |-> IF args.maxResults.given THEN args.maxResults.value ELSE 100]

(***************************************************************************)
(* domains/*.ts: the upstream call each operation builds                   *)
(***************************************************************************)
\* `${v}` in a template literal.
TemplateStr(v) == IF v = Undefined THEN "undefined" ELSE v

Truthy(v) == ~Falsy(v)

\* conditions.join(" AND ")
RECURSIVE Join(_)
Join(conditions) ==
    IF conditions = <<>> THEN <<>>
    ELSE IF Len(conditions) = 1 THEN conditions[1]
    ELSE conditions[1] \o <<"AND">> \o Join(Tail(conditions))

\* The date conditions every list operation with a date range pushes.
DateConditions(a) ==
    (IF Truthy(a.startDate) THEN << <<"TxnDate >=", a.startDate>> >> ELSE <<>>)
      \o (IF Truthy(a.endDate) THEN << <<"TxnDate <=", a.endDate>> >> ELSE <<>>)

\* Variant of the invoice filter that pushes the date conditions first.
InvoiceConditionsDatesFirst(a) ==
    DateConditions(a)
      \o (IF a.status = "Paid" THEN << <<"Balance = '0'">> >>
          ELSE IF a.status = "Unpaid" THEN << <<"Balance > '0'">> >>
          ELSE IF a.status = "Overdue"
          THEN << <<"Balance > '0'", "AND", "DueDate < 'today'">> >>
          ELSE <<>>)

\* qbo_invoices_list: the status condition (Overdue pushes one string that
\* holds two conditions; today is the current UTC date), then the dates.
InvoiceConditions(a) ==
    (IF a.status = "Paid" THEN << <<"Balance = '0'">> >>
     ELSE IF a.status = "Unpaid" THEN << <<"Balance > '0'">> >>
     ELSE IF a.status = "Overdue"
     THEN << <<"Balance > '0'", "AND", "DueDate < 'today'">> >>
     ELSE <<>>)
      \o DateConditions(a)

\* The query text without its pagination clause (see ListQuery).
Sql(base, conditions) ==
    <<base>> \o (IF Len(conditions) > 0 THEN <<"WHERE">> \o Join(conditions) ELSE <<>>)

Get(path) == [method |-> "GET", path |-> path, sql |-> <<>>]
Post(path) == [method |-> "POST", path |-> path, sql |-> <<>>]
Query(sql) == [method |-> "POST", path |-> <<"query">>, sql |-> sql]

\* Variant of the case table in which qbo_invoices_send reads, not posts.
DomainRequestSendAsGet(name, a) ==
    CASE name = <<"qbo", "customers", "list">> -> Query(Sql("SELECT * FROM Customer", <<>>))
      [] name = <<"qbo", "customers", "get">> -> Get(<<"customer", TemplateStr(a.id)>>)
      [] name = <<"qbo", "customers", "create">> -> Post(<<"customer">>)
      [] name = <<"qbo", "customers", "search">> ->
            Query(Sql("SELECT * FROM Customer",
                      << <<"DisplayName LIKE", TemplateStr(a.id)>> >>))
      [] name = <<"qbo", "invoices", "list">> ->
            Query(Sql("SELECT * FROM Invoice", InvoiceConditions(a)))
      [] name = <<"qbo", "invoices", "get">> -> Get(<<"invoice", TemplateStr(a.id)>>)
      [] name = <<"qbo", "invoices", "create">> -> Post(<<"invoice">>)
      [] name = <<"qbo", "invoices", "send">> ->
            Get(<<"invoice", TemplateStr(a.id), "send">>)
      [] name = <<"qbo", "expenses", "list", "purchases">> ->
            Query(Sql("SELECT * FROM Purchase", DateConditions(a)))
      [] name = <<"qbo", "expenses", "list", "bills">> ->
            Query(Sql("SELECT * FROM Bill", DateConditions(a)))
      [] name = <<"qbo", "expenses", "get", "purchase">> ->
            Get(<<"purchase", TemplateStr(a.id)>>)
      [] name = <<"qbo", "expenses", "get", "bill">> -> Get(<<"bill", TemplateStr(a.id)>>)
      [] name = <<"qbo", "payments", "list">> ->
            Query(Sql("SELECT * FROM Payment", DateConditions(a)))
      [] name = <<"qbo", "payments", "get">> -> Get(<<"payment", TemplateStr(a.id)>>)
      [] name = <<"qbo", "payments", "create">> -> Post(<<"payment">>)
      [] name = <<"qbo", "reports", "profit", "and", "loss">> ->
            Get(<<"reports", "ProfitAndLoss">>)
      [] name = <<"qbo", "reports", "balance", "sheet">> -> Get(<<"reports", "BalanceSheet">>)
      [] name = <<"qbo", "reports", "aged", "receivables">> ->
            Get(<<"reports", "AgedReceivables">>)
      [] name = <<"qbo", "reports", "aged", "payables">> -> Get(<<"reports", "AgedPayables">>)
      [] name = <<"qbo", "reports", "customer", "sales">> ->
            Get(<<"reports", "CustomerSales">>)
      [] OTHER -> Get(<<>>)

\* The one client call in each case of the five handlers' switches. No case
\* looks at whether its required argument is there: an absent one is
\* interpolated as "undefined".
DomainRequest(name, a) ==
    CASE name = <<"qbo", "customers", "list">> -> Query(Sql("SELECT * FROM Customer", <<>>))
      [] name = <<"qbo", "customers", "get">> -> Get(<<"customer", TemplateStr(a.id)>>)
      [] name = <<"qbo", "customers", "create">> -> Post(<<"customer">>)
      [] name = <<"qbo", "customers", "search">> ->
            Query(Sql("SELECT * FROM Customer",
                      << <<"DisplayName LIKE", TemplateStr(a.id)>> >>))
      [] name = <<"qbo", "invoices", "list">> ->
            Query(Sql("SELECT * FROM Invoice", InvoiceConditions(a)))
      [] name = <<"qbo", "invoices", "get">> -> Get(<<"invoice", TemplateStr(a.id)>>)
      [] name = <<"qbo", "invoices", "create">> -> Post(<<"invoice">>)
      [] name = <<"qbo", "invoices", "send">> ->
            Post(<<"invoice", TemplateStr(a.id), "send">>)
      [] name = <<"qbo", "expenses", "list", "purchases">> ->
            Query(Sql("SELECT * FROM Purchase", DateConditions(a)))
      [] name = <<"qbo", "expenses", "list", "bills">> ->
            Query(Sql("SELECT * FROM Bill", DateConditions(a)))
      [] name = <<"qbo", "expenses", "get", "purchase">> ->
            Get(<<"purchase", TemplateStr(a.id)>>)
      [] name = <<"qbo", "expenses", "get", "bill">> -> Get(<<"bill", TemplateStr(a.id)>>)
      [] name = <<"qbo", "payments", "list">> ->
            Query(Sql("SELECT * FROM Payment", DateConditions(a)))
      [] name = <<"qbo", "payments", "get">> -> Get(<<"payment", TemplateStr(a.id)>>)
      [] name = <<"qbo", "payments", "create">> -> Post(<<"payment">>)
      [] name = <<"qbo", "reports", "profit", "and", "loss">> ->
            Get(<<"reports", "ProfitAndLoss">>)
      [] name = <<"qbo", "reports", "balance", "sheet">> -> Get(<<"reports", "BalanceSheet">>)
      [] name = <<"qbo", "reports", "aged", "receivables">> ->
            Get(<<"reports", "AgedReceivables">>)
      [] name = <<"qbo", "reports", "aged", "payables">> -> Get(<<"reports", "AgedPayables">>)
      [] name = <<"qbo", "reports", "customer", "sales">> ->
            Get(<<"reports", "CustomerSales">>)
      [] OTHER -> Get(<<>>)

(***************************************************************************)
(* utils/client.ts: one upstream request                                   *)
(***************************************************************************)
\* What fetch settles with: a rejection (no HTTP response at all) or a
\* response with a status and a body text.
Statuses == {200, 201, 204, 302, 400, 401, 500}
Bodies == {"{}", "{\"Id\":\"1\"}", "oops"}

UpstreamAnswers ==
    {[kind |-> "rejected", status |-> 0, body |-> ""]}
      \cup [kind : {"http"}, status : Statuses, body : Bodies]

\* Variant of response.ok that accepts redirects as well.
ResponseOkBelow400(status) == 200 <= status /\ status <= 399

\* response.ok
ResponseOk(status) == 200 <= status /\ status <= 299

\* response.json(): the body text parsed, or a SyntaxError.
JsonParse(body) ==
    CASE body = "{}" -> [ok |-> TRUE, value |-> JObject(<<>>)]
      [] body = "{\"Id\":\"1\"}" -> [ok |-> TRUE, value |-> JObject(<< <<"Id", "1">> >>)]
      [] OTHER -> [ok |-> FALSE, value |-> JNull]

\* JSON.stringify(value, null, 2), as the pieces of the text.
RECURSIVE StringifyMembers(_)
StringifyMembers(members) ==
    IF members = <<>> THEN <<>>
    ELSE <<"\n  ", "\"", members[1][1], "\": \"", members[1][2], "\"">>
           \o (IF Len(members) > 1 THEN <<",">> ELSE <<"\n">>)
           \o StringifyMembers(Tail(members))

JsonStringify(value) ==
    IF value.type = "null" THEN <<"null">>
    ELSE <<"{">> \o StringifyMembers(value.members) \o <<"}">>

\* QboClient.request after fetch settled.
RequestOutcome(req, answer) ==
    IF answer.kind = "rejected"
    THEN [threw |-> TRUE, error |-> [NoError EXCEPT !.kind = "fetch failed"], value |-> JNull]
    ELSE IF ~ResponseOk(answer.status)
    THEN [threw |-> TRUE,
          error |-> [kind |-> "QBO API error", method |-> req.method, path |-> req.path,
                     status |-> answer.status, body |-> answer.body, named |-> <<>>],
          value |-> JNull]
    ELSE IF answer.status = 204
    THEN [threw |-> FALSE, error |-> NoError, value |-> JNull]
    ELSE LET parsed == JsonParse(answer.body) IN
         IF parsed.ok THEN [threw |-> FALSE, error |-> NoError, value |-> parsed.value]
         ELSE [threw |-> TRUE, error |-> [NoError EXCEPT !.kind = "SyntaxError"],
               value |-> JNull]

(***************************************************************************)
(* index.ts, domains/*.ts: the result of an operation call                 *)
(***************************************************************************)
\* Variant of the dispatch boundary that lets a rejected fetch escape.
HandlerResultRethrowing(outcome) ==
    IF outcome.threw
    THEN [isError |-> TRUE, fault |-> outcome.error.kind = "fetch failed",
          error |-> outcome.error, text |-> <<"Error: ">>]
    ELSE [isError |-> FALSE, fault |-> FALSE, error |-> NoError,
          text |-> JsonStringify(outcome.value)]

\* The handler returns the value as pretty-printed JSON text; what request
\* threw is caught in the CallTool handler and becomes a failed result.
HandlerResult(outcome) ==
    IF outcome.threw
    THEN [isError |-> TRUE, fault |-> FALSE, error |-> outcome.error, text |-> <<"Error: ">>]
    ELSE [isError |-> FALSE, fault |-> FALSE, error |-> NoError,
          text |-> JsonStringify(outcome.value)]

\* The result of a call that ends without an upstream request: navigation,
\* a name no test matches, getClient throwing, a handler's default case.
LocalResult(name, navArgs, cl, e, out) ==
    LET r == Route(name)
        kind == IF ~out.isError THEN "none"
                ELSE IF r = "navigate" THEN "TypeError"
                ELSE IF r = "unknown" THEN "Unknown tool"
                ELSE IF getClient(cl, e).threw THEN "credentials required"
                ELSE "Unknown domain tool"
    IN  [isError |-> out.isError, fault |-> FALSE,
         error |-> [NoError EXCEPT !.kind = kind,
                                   !.named = IF kind \in {"Unknown tool", "Unknown domain tool"}
                                             THEN name ELSE <<>>],
         text |-> IF kind = "Unknown tool" THEN <<"Unknown tool: ">>
                  ELSE IF kind = "Unknown domain tool" THEN <<"Unknown ", r, " tool: ">>
                  ELSE IF out.isError THEN <<"Error: ">>
                  ELSE <<"Navigated">>]

(***************************************************************************)
(* Initial states                                                          *)
(***************************************************************************)
\* process.env at start: each variable unset or set.
EnvValues == {[QBO_ACCESS_TOKEN |-> h.accessToken, QBO_REALM_ID |-> h.realmId] : h \in HeaderPairs}

\* main() with MCP_TRANSPORT=http: startHttpTransport reads AUTH_MODE.
Init ==
    /\ transport = "http"
    /\ authMode \in {"env", "gateway"}
    /\ env \in EnvValues
    /\ client = NullClient
    /\ currentDomain = Null
    /\ calls = [c \in Calls |-> IdleCall]
    /\ hist = <<>>
    /\ probe = NoProbe
    /\ fetch = NoFetch
    /\ other = NoFetch
    /\ opCall = NoCall
    /\ store = <<>>

(***************************************************************************)
(* Actions: each leaves the history variable to the specification          *)
(***************************************************************************)
\* A new request takes the first free slot (slots are interchangeable).
FreeSlot(c) == calls[c].pc = "idle" /\ \A d \in Calls : d < c => calls[d].pc # "idle"

\* Variant of the /mcp callback that resets the shared client before it
\* looks at the headers.
HttpRequestResettingFirst(c, accessToken, realmId) ==
    /\ transport = "http"
    /\ FreeSlot(c)
    /\ IF authMode = "gateway"
       THEN IF HeadersMissing(accessToken, realmId)
            THEN /\ client' = resetClient(client)
                 /\ calls' = [calls EXCEPT ![c] =
                       [pc |-> "rejected", accessToken |-> accessToken, realmId |-> realmId,
                        sent |-> NoPair,
                        required |-> UnauthorizedRequired(accessToken, realmId)]]
                 /\ UNCHANGED env
            ELSE /\ client' = resetClient(client)
                 /\ env' = [QBO_ACCESS_TOKEN |-> EnvStr(accessToken),
                            QBO_REALM_ID |-> EnvStr(realmId)]
                 /\ calls' = [calls EXCEPT ![c] =
                       [pc |-> "received", accessToken |-> accessToken, realmId |-> realmId,
                        sent |-> NoPair, required |-> {}]]
       ELSE /\ calls' = [calls EXCEPT ![c] = [IdleCall EXCEPT !.pc = "received"]]
            /\ UNCHANGED <<env, client>>
    /\ UNCHANGED <<transport, authMode, currentDomain>>

\* Variant of the /mcp callback that stores the access token only.
HttpRequestStoringTokenOnly(c, accessToken, realmId) ==
    /\ transport = "http"
    /\ FreeSlot(c)
    /\ IF authMode = "gateway"
       THEN IF HeadersMissing(accessToken, realmId)
            THEN /\ calls' = [calls EXCEPT ![c] =
                       [pc |-> "rejected", accessToken |-> accessToken, realmId |-> realmId,
                        sent |-> NoPair,
                        required |-> UnauthorizedRequired(accessToken, realmId)]]
                 /\ UNCHANGED <<env, client>>
            ELSE /\ client' = resetClient(client)
                 /\ env' = [env EXCEPT !.QBO_ACCESS_TOKEN = EnvStr(accessToken)]
                 /\ calls' = [calls EXCEPT ![c] =
                       [pc |-> "received", accessToken |-> accessToken, realmId |-> realmId,
                        sent |-> NoPair, required |-> {}]]
       ELSE /\ calls' = [calls EXCEPT ![c] = [IdleCall EXCEPT !.pc = "received"]]
            /\ UNCHANGED <<env, client>>
    /\ UNCHANGED <<transport, authMode, currentDomain>>

\* createServer callback for /mcp: in gateway mode reject a request lacking a
\* credential header, otherwise reset the shared client and overwrite
\* process.env; then hand the request to the protocol transport.
HttpRequest(c, accessToken, realmId) ==
    /\ transport = "http"
    /\ FreeSlot(c)
    /\ IF authMode = "gateway"
       THEN IF HeadersMissing(accessToken, realmId)
            THEN /\ calls' = [calls EXCEPT ![c] =
                       [pc |-> "rejected", accessToken |-> accessToken, realmId |-> realmId,
                        sent |-> NoPair,
                        required |-> UnauthorizedRequired(accessToken, realmId)]]
                 /\ UNCHANGED <<env, client>>
            ELSE /\ client' = resetClient(client)
                 /\ env' = [QBO_ACCESS_TOKEN |-> EnvStr(accessToken),
                            QBO_REALM_ID |-> EnvStr(realmId)]
                 /\ calls' = [calls EXCEPT ![c] =
                       [pc |-> "received", accessToken |-> accessToken, realmId |-> realmId,
                        sent |-> NoPair, required |-> {}]]
       ELSE /\ calls' = [calls EXCEPT ![c] = [IdleCall EXCEPT !.pc = "received"]]
            /\ UNCHANGED <<env, client>>
    /\ UNCHANGED <<transport, authMode, currentDomain>>

\* createServer callback for any other path: /health is answered 200 and
\* everything else 404, before any header is read.
OtherPaths == {"/health", "/other"}

PathRequest(c, path, accessToken, realmId) ==
    /\ transport = "http"
    /\ FreeSlot(c)
    /\ calls' = [calls EXCEPT ![c] =
          [pc |-> IF path = "/health" THEN "health" ELSE "notfound",
           accessToken |-> accessToken, realmId |-> realmId,
           sent |-> NoPair, required |-> {}]]
    /\ UNCHANGED <<transport, authMode, env, client, currentDomain>>

\* The 200 or 404 response has been written; the request is over.
Answered(c) ==
    /\ calls[c].pc \in {"health", "notfound"}
    /\ calls' = [calls EXCEPT ![c] = IdleCall]
    /\ UNCHANGED <<transport, authMode, env, client, currentDomain>>

\* A request reaches the protocol handlers through transport.handleRequest
\* over HTTP, and directly from the input stream over stdio.
Dispatchable(c) ==
    IF transport = "stdio" THEN FreeSlot(c) ELSE calls[c].pc = "received"

\* The 401 response has been written; the request is over.
Rejected(c) ==
    /\ calls[c].pc = "rejected"
    /\ calls' = [calls EXCEPT ![c] = IdleCall]
    /\ UNCHANGED <<transport, authMode, env, client, currentDomain>>

\* Variant of the ListTools request handler that returns the session to Root.
ListToolsRequestResetting(c) ==
    /\ Dispatchable(c)
    /\ calls' = [calls EXCEPT ![c] = IdleCall]
    /\ currentDomain' = Null
    /\ UNCHANGED <<transport, authMode, env, client>>

\* ListTools request handler.
ListToolsRequest(c) ==
    /\ Dispatchable(c)
    /\ calls' = [calls EXCEPT ![c] = IdleCall]
    /\ UNCHANGED <<transport, authMode, env, client, currentDomain>>

\* CallTool request handler, run to its await on the upstream fetch or to its
\* return.
CallToolRequest(c, name, args) ==
    /\ Dispatchable(c)
    /\ LET out == CallTool(name, args, currentDomain, client, env) IN
       /\ currentDomain' = out.currentDomain
       /\ client' = out.client
       /\ calls' = [calls EXCEPT ![c] =
             IF out.upstream
             THEN [calls[c] EXCEPT !.pc = "awaiting", !.sent = out.credential]
             ELSE IdleCall]
    /\ UNCHANGED <<transport, authMode, env>>

\* The upstream fetch settles and the handler returns its result.
UpstreamResponse(c) ==
    /\ calls[c].pc = "awaiting"
    /\ calls' = [calls EXCEPT ![c] = IdleCall]
    /\ UNCHANGED <<transport, authMode, env, client, currentDomain>>

\* The process configuration changes under a running env-mode process.
ConfigChange(accessToken, realmId) ==
    /\ authMode = "env"
    /\ env' = [QBO_ACCESS_TOKEN |-> accessToken, QBO_REALM_ID |-> realmId]
    /\ env' # env
    /\ UNCHANGED <<transport, authMode, client, currentDomain, calls>>

ArgsFor(name) == IF name = navigateTool THEN NavArgs ELSE {NoArgs}

(***************************************************************************)
(* Spec: the HTTP server, any number of overlapping requests               *)
(***************************************************************************)
Next ==
    \/ \E c \in Calls, h \in HeaderPairs :
          HttpRequest(c, h.accessToken, h.realmId) /\ UNCHANGED <<hist, probe, fetch, other, opCall, store>>
    \/ \E c \in Calls : Rejected(c) /\ UNCHANGED <<hist, probe, fetch, other, opCall, store>>
    \/ \E c \in Calls : ListToolsRequest(c) /\ UNCHANGED <<hist, probe, fetch, other, opCall, store>>
    \/ \E c \in Calls, name \in CallNames : \E args \in ArgsFor(name) :
          CallToolRequest(c, name, args) /\ UNCHANGED <<hist, probe, fetch, other, opCall, store>>
    \/ \E c \in Calls : UpstreamResponse(c) /\ UNCHANGED <<hist, probe, fetch, other, opCall, store>>
    \/ \E h \in HeaderPairs : ConfigChange(h.accessToken, h.realmId) /\ UNCHANGED <<hist, probe, fetch, other, opCall, store>>

Spec == Init /\ [][Next]_vars


(***************************************************************************)
(* SpecGate: the HTTP server in gateway mode, requests to every path,      *)
(* overlapping                                                             *)
(***************************************************************************)
InitGate == Init /\ authMode = "gateway"

\* Headers of the requests to /health and to unknown paths: none, or a pair.
GateHeaders == {NoPair, [accessToken |-> "tokA", realmId |-> "realmA"]}

\* Operations called through /mcp: a domain operation and the two
\* navigation operations, qbo_navigate with a domain.
GateNames == {<<"qbo", "customers", "list">>, navigateTool, backTool}

GateArgsFor(name) ==
    IF name = navigateTool THEN {[present |-> TRUE, domain |-> "customers"]} ELSE {NoArgs}

NextGate ==
    \/ \E c \in Calls, h \in HeaderPairs :
          HttpRequest(c, h.accessToken, h.realmId) /\ UNCHANGED <<hist, probe, fetch, other, opCall, store>>
    \/ \E c \in Calls, h \in GateHeaders, path \in OtherPaths :
          PathRequest(c, path, h.accessToken, h.realmId) /\ UNCHANGED <<hist, probe, fetch, other, opCall, store>>
    \/ \E c \in Calls : Rejected(c) /\ UNCHANGED <<hist, probe, fetch, other, opCall, store>>
    \/ \E c \in Calls : Answered(c) /\ UNCHANGED <<hist, probe, fetch, other, opCall, store>>
    \/ \E c \in Calls : ListToolsRequest(c) /\ UNCHANGED <<hist, probe, fetch, other, opCall, store>>
    \/ \E c \in Calls, name \in GateNames : \E args \in GateArgsFor(name) :
          CallToolRequest(c, name, args) /\ UNCHANGED <<hist, probe, fetch, other, opCall, store>>
    \/ \E c \in Calls : UpstreamResponse(c) /\ UNCHANGED <<hist, probe, fetch, other, opCall, store>>

SpecGate == InitGate /\ [][NextGate]_vars

(***************************************************************************)
(* SpecSeq: gateway mode, requests that do not overlap; the history        *)
(* records every upstream request                                          *)
(***************************************************************************)
InFlight(c) == calls[c].pc \in {"received", "awaiting"}

InitSeq == Init /\ authMode = "gateway"

NextSeq ==
    \/ \E c \in Calls, h \in HeaderPairs :
          /\ \A d \in Calls : ~InFlight(d)
          /\ HttpRequest(c, h.accessToken, h.realmId)
          /\ UNCHANGED <<hist, probe, fetch, other, opCall, store>>
    \/ \E c \in Calls : Rejected(c) /\ UNCHANGED <<hist, probe, fetch, other, opCall, store>>
    \/ \E c \in Calls : ListToolsRequest(c) /\ UNCHANGED <<hist, probe, fetch, other, opCall, store>>
    \/ \E c \in Calls, name \in CallNames : \E args \in ArgsFor(name) :
          /\ CallToolRequest(c, name, args)
          /\ LET out == CallTool(name, args, currentDomain, client, env) IN
             hist' = IF out.upstream
                     THEN Remember(hist, LogUpstream(calls[c], out))
                     ELSE hist
          /\ UNCHANGED <<probe, fetch, other, opCall, store>>
    \/ \E c \in Calls : UpstreamResponse(c) /\ UNCHANGED <<hist, probe, fetch, other, opCall, store>>

SpecSeq == InitSeq /\ [][NextSeq]_vars

(***************************************************************************)
(* SpecNav: one stdio session (the default transport, credentials from the *)
(* environment); the history records every listing and navigation request  *)
(* in the order the handlers ran                                           *)
(***************************************************************************)
\* main() without MCP_TRANSPORT: startStdioTransport, AUTH_MODE is not read.
InitNav ==
    /\ transport = "stdio"
    /\ authMode = "env"
    /\ env \in {[QBO_ACCESS_TOKEN |-> Undefined, QBO_REALM_ID |-> Undefined],
                [QBO_ACCESS_TOKEN |-> "tokA", QBO_REALM_ID |-> "realmA"]}
    /\ client = NullClient
    /\ currentDomain = Null
    /\ calls = [c \in Calls |-> IdleCall]
    /\ hist = <<>>
    /\ probe = NoProbe
    /\ fetch = NoFetch
    /\ other = NoFetch
    /\ opCall = NoCall
    /\ store = <<>>

NextNav ==
    \/ \E c \in Calls :
          /\ ListToolsRequest(c)
          /\ hist' = Remember(hist, LogList(currentDomain))
          /\ UNCHANGED <<probe, fetch, other, opCall, store>>
    \/ \E c \in Calls, name \in CallNames : \E args \in ArgsFor(name) :
          /\ CallToolRequest(c, name, args)
          /\ LET out == CallTool(name, args, currentDomain, client, env) IN
             hist' = IF IsNavigation(name)
                     THEN Remember(hist, LogCall(name, args, out))
                     ELSE IF name \in OutsideNames
                     THEN Remember(hist, LogOutside(name, out))
                     ELSE hist
          /\ UNCHANGED <<probe, fetch, other, opCall, store>>
    \/ \E c \in Calls : UpstreamResponse(c) /\ UNCHANGED <<hist, probe, fetch, other, opCall, store>>

SpecNav == InitNav /\ [][NextNav]_vars


(***************************************************************************)
(* SpecRoute: the router of the CallTool handler, given one name            *)
(***************************************************************************)
InitRoute ==
    /\ transport = "stdio"
    /\ authMode = "env"
    /\ env = [QBO_ACCESS_TOKEN |-> Undefined, QBO_REALM_ID |-> Undefined]
    /\ client = NullClient
    /\ currentDomain = Null
    /\ calls = [c \in Calls |-> IdleCall]
    /\ hist = <<>>
    /\ fetch = NoFetch
    /\ other = NoFetch
    /\ opCall = NoCall
    /\ store = <<>>
    /\ probe \in {[name |-> n, route |-> "none", matches |-> {}] : n \in RouteNames}

\* The chain of tests on the request's name: the branch taken, and every
\* domain whose prefix test the name passes.
RouteRequest ==
    /\ probe.route = "none"
    /\ probe' = [probe EXCEPT !.route = Route(probe.name),
                              !.matches = {d \in Domain : StartsWith(probe.name, d)}]
    /\ UNCHANGED <<transport, authMode, env, client, currentDomain, calls, hist, fetch, other, opCall, store>>

NextRoute == RouteRequest

SpecRoute == InitRoute /\ [][NextRoute]_vars

(***************************************************************************)
(* SpecPage: one paginated fetch, or one list query, against an upstream    *)
(* service that answers each round as it likes                              *)
(***************************************************************************)
InitPage ==
    /\ transport = "stdio"
    /\ authMode = "env"
    /\ env = [QBO_ACCESS_TOKEN |-> "tokA", QBO_REALM_ID |-> "realmA"]
    /\ client = getClient(NullClient, env).client
    /\ currentDomain = Null
    /\ calls = [c \in Calls |-> IdleCall]
    /\ hist = <<>>
    /\ probe = NoProbe
    /\ fetch = NoFetch
    /\ other = NoFetch
    /\ opCall = NoCall
    /\ store = <<>>

\* A caller invokes getPaginated.
StartFetch(maxResults) ==
    /\ fetch.pc = "idle"
    /\ fetch' = getPaginatedStart(maxResults)
    /\ UNCHANGED <<transport, authMode, env, client, currentDomain, calls, hist, probe, other, opCall, store>>

\* The loop sends the query of the next round.
PageRequest ==
    /\ fetch.pc = "loop"
    /\ fetch' = [fetch EXCEPT !.pc = "awaiting",
                              !.log = Append(@, [query |-> PaginatedSql(fetch),
                                                 response |-> Pending])]
    /\ UNCHANGED <<transport, authMode, env, client, currentDomain, calls, hist, probe, other, opCall, store>>

\* The query settles and the loop body runs; the upstream service returns at
\* most MaxItems items to one fetch.
PageResponse(resp) ==
    /\ fetch.pc = "awaiting"
    /\ fetch' = getPaginatedRound(fetch, resp)
    /\ UNCHANGED <<transport, authMode, env, client, currentDomain, calls, hist, probe, other, opCall, store>>

\* A list or search handler sends its one query.
ListRequest(args) ==
    /\ fetch.pc = "idle"
    /\ fetch' = [NoFetch EXCEPT !.pc = "listing", !.given = args.maxResults.given,
                                !.log = <<[query |-> ListQuery(args), response |-> Pending]>>]
    /\ UNCHANGED <<transport, authMode, env, client, currentDomain, calls, hist, probe, other, opCall, store>>

\* The list query settles and the handler returns the body as it is.
ListResponse(resp) ==
    /\ fetch.pc = "listing"
    /\ fetch' = [fetch EXCEPT !.pc = "listed", !.log[1].response = resp]
    /\ UNCHANGED <<transport, authMode, env, client, currentDomain, calls, hist, probe, other, opCall, store>>

NextPage ==
    \/ \E maxResults \in PageSizes : StartFetch(maxResults)
    \/ PageRequest
    \/ \E resp \in Responses(MaxItems - Len(fetch.allItems)) : PageResponse(resp)
    \/ \E args \in ListArgs : ListRequest(args)
    \/ \E resp \in Responses(1) : ListResponse(resp)

SpecPage == InitPage /\ [][NextPage]_vars

(***************************************************************************)
(* SpecStore: one paginated fetch against an upstream service that holds a  *)
(* fixed sequence of entities and answers every query with the entities at *)
(* the positions asked for; every request is answered                      *)
(***************************************************************************)
Stores == {[i \in 1..n |-> i] : n \in 0..MaxStore}

\* The entities of st at the positions q.startPosition ..
\* q.startPosition + q.maxResults - 1 that exist.
StorePage(st, q) ==
    LET first == IF q.startPosition < 1 THEN 1 ELSE q.startPosition
        last == IF q.startPosition + q.maxResults - 1 > Len(st) THEN Len(st)
                ELSE q.startPosition + q.maxResults - 1
    IN  IF first > last THEN <<>> ELSE [i \in 1..(last - first + 1) |-> st[first + i - 1]]

\* The answer to a query: the page as the one array member of QueryResponse;
\* an empty page comes as an empty array or as no array at all.
StoreResponses(st, q) ==
    LET page == StorePage(st, q) IN
    {[status |-> "ok", hasQueryResponse |-> TRUE, arrays |-> <<page>>]}
      \cup (IF page = <<>>
            THEN {[status |-> "ok", hasQueryResponse |-> TRUE, arrays |-> <<>>]}
            ELSE {})

InitStore ==
    /\ transport = "stdio"
    /\ authMode = "env"
    /\ env = [QBO_ACCESS_TOKEN |-> "tokA", QBO_REALM_ID |-> "realmA"]
    /\ client = getClient(NullClient, env).client
    /\ currentDomain = Null
    /\ calls = [c \in Calls |-> IdleCall]
    /\ hist = <<>>
    /\ probe = NoProbe
    /\ fetch = NoFetch
    /\ other = NoFetch
    /\ opCall = NoCall
    /\ store \in Stores

NextStore ==
    \/ \E maxResults \in PageSizes : StartFetch(maxResults)
    \/ PageRequest
    \/ /\ fetch.pc = "awaiting"
       /\ \E resp \in StoreResponses(store, fetch.log[Len(fetch.log)].query) :
             PageResponse(resp)

SpecStore == InitStore /\ [][NextStore]_vars /\ WF_vars(NextStore)

(***************************************************************************)
(* SpecPair: two paginated fetches in flight at once, their rounds          *)
(* interleaved in any order                                                *)
(***************************************************************************)
\* Page sizes and answers for the two fetches: a batch (possibly empty), or a
\* QueryResponse without an array member.
PairSizes == {Num(n) : n \in 1..MaxPage}

PairResponses(room) ==
    {[status |-> "ok", hasQueryResponse |-> TRUE, arrays |-> <<>>]}
      \cup {[status |-> "ok", hasQueryResponse |-> TRUE, arrays |-> <<b>>] : b \in Batches(room)}

\* A second caller invokes getPaginated.
StartOther(maxResults) ==
    /\ other.pc = "idle"
    /\ other' = getPaginatedStart(maxResults)
    /\ UNCHANGED <<transport, authMode, env, client, currentDomain, calls, hist, probe, fetch, opCall, store>>

\* Variant of the second fetch's query that reads the first fetch's cursor.
OtherRequestSharedCursor ==
    /\ other.pc = "loop"
    /\ other' = [other EXCEPT !.pc = "awaiting",
                              !.log = Append(@, [query |-> PaginatedSql(fetch),
                                                 response |-> Pending])]
    /\ UNCHANGED <<transport, authMode, env, client, currentDomain, calls, hist, probe, fetch, opCall, store>>

\* The second fetch sends the query of its next round.
OtherRequest ==
    /\ other.pc = "loop"
    /\ other' = [other EXCEPT !.pc = "awaiting",
                              !.log = Append(@, [query |-> PaginatedSql(other),
                                                 response |-> Pending])]
    /\ UNCHANGED <<transport, authMode, env, client, currentDomain, calls, hist, probe, fetch, opCall, store>>

\* The second fetch's query settles and its loop body runs.
OtherResponse(resp) ==
    /\ other.pc = "awaiting"
    /\ other' = getPaginatedRound(other, resp)
    /\ UNCHANGED <<transport, authMode, env, client, currentDomain, calls, hist, probe, fetch, opCall, store>>

NextPair ==
    \/ \E maxResults \in PairSizes : StartFetch(maxResults)
    \/ PageRequest
    \/ \E resp \in PairResponses(PairItems - Len(fetch.allItems)) : PageResponse(resp)
    \/ \E maxResults \in PairSizes : StartOther(maxResults)
    \/ OtherRequest
    \/ \E resp \in PairResponses(PairItems - Len(other.allItems)) : OtherResponse(resp)

SpecPair == InitPage /\ [][NextPair]_vars

(***************************************************************************)
(* SpecCall: one stdio session; each operation call is followed from its    *)
(* arguments to the upstream request it builds, the answer and the result   *)
(***************************************************************************)
\* Arguments of a domain operation: its required field (id stands for
\* customerId, invoiceId, CustomerRef, term, ...) given or not, and for
\* qbo_invoices_list the optional filter arguments.
StatusValues == {Undefined, "Paid", "Unpaid", "Overdue", "Draft"}

OpArgsFor(name) ==
    IF name = <<"qbo", "invoices", "list">>
    THEN [id : {Undefined}, status : StatusValues,
          startDate : {Undefined, "", "2024-01-01"},
          endDate : {Undefined, "", "2024-12-31"}]
    ELSE IF Route(name) \in Domain
    THEN {[NoOpArgs EXCEPT !.id = v] : v \in {Undefined, "42"}}
    ELSE {NoOpArgs}

\* Arguments of qbo_navigate: none at all, a domain, a value outside the five.
CallNavArgsFor(name) ==
    IF name = navigateTool
    THEN {[present |-> FALSE, domain |-> Undefined],
          [present |-> TRUE, domain |-> "customers"],
          [present |-> TRUE, domain |-> "bogus"]}
    ELSE {NoArgs}

InitCall ==
    /\ transport = "stdio"
    /\ authMode = "env"
    /\ env \in {[QBO_ACCESS_TOKEN |-> Undefined, QBO_REALM_ID |-> Undefined],
                [QBO_ACCESS_TOKEN |-> "tokA", QBO_REALM_ID |-> "realmA"]}
    /\ client = NullClient
    /\ currentDomain = Null
    /\ calls = [c \in Calls |-> IdleCall]
    /\ hist = <<>>
    /\ probe = NoProbe
    /\ fetch = NoFetch
    /\ other = NoFetch
    /\ opCall = NoCall
    /\ store = <<>>

\* CallTool request handler up to its await on the upstream request, or to
\* its return when it sends none.
OperationCall(name, navArgs, a) ==
    /\ opCall.pc = "idle"
    /\ LET out == CallTool(name, navArgs, currentDomain, client, env)
           req == DomainRequest(name, a)
       IN
       /\ currentDomain' = out.currentDomain
       /\ client' = out.client
       /\ opCall' =
             IF out.upstream
             THEN [NoCall EXCEPT !.pc = "awaiting", !.name = name, !.navArgs = navArgs,
                                 !.args = a, !.attempts = 1,
                                 !.request = [method |-> req.method, path |-> req.path,
                                              sql |-> req.sql,
                                              credential |-> out.credential]]
             ELSE [NoCall EXCEPT !.pc = "done", !.name = name, !.navArgs = navArgs,
                                 !.args = a,
                                 !.result = LocalResult(name, navArgs, client, env, out)]
    /\ UNCHANGED <<transport, authMode, env, calls, hist, probe, fetch, other, store>>

\* Variant of the settling step that sends a failed request once more.
OperationSettlesRetrying(answer) ==
    /\ opCall.pc = "awaiting"
    /\ LET outcome == RequestOutcome(opCall.request, answer) IN
       opCall' = IF outcome.threw /\ opCall.attempts < 2
                 THEN [opCall EXCEPT !.attempts = @ + 1]
                 ELSE [opCall EXCEPT !.pc = "done", !.response = answer,
                                     !.outcome = outcome,
                                     !.result = HandlerResult(outcome)]
    /\ UNCHANGED <<transport, authMode, env, client, currentDomain, calls, hist, probe,
                   fetch, other, store>>

\* fetch settles: request returns or throws, and the handler (or the catch
\* of the CallTool handler) returns the result.
OperationSettles(answer) ==
    /\ opCall.pc = "awaiting"
    /\ LET outcome == RequestOutcome(opCall.request, answer) IN
       opCall' = [opCall EXCEPT !.pc = "done", !.response = answer,
                                !.outcome = outcome,
                                !.result = HandlerResult(outcome)]
    /\ UNCHANGED <<transport, authMode, env, client, currentDomain, calls, hist, probe,
                   fetch, other, store>>

\* The result has been written to the caller; the session takes its next
\* call.
OperationReturns ==
    /\ opCall.pc = "done"
    /\ opCall' = NoCall
    /\ UNCHANGED <<transport, authMode, env, client, currentDomain, calls, hist, probe,
                   fetch, other, store>>

NextCall ==
    \/ \E name \in CallNames : \E navArgs \in CallNavArgsFor(name), a \in OpArgsFor(name) :
          OperationCall(name, navArgs, a)
    \/ \E answer \in UpstreamAnswers : OperationSettles(answer)
    \/ OperationReturns

SpecCall == InitCall /\ [][NextCall]_vars

(***************************************************************************)
(* Properties                                                              *)
(***************************************************************************)
OwnPair(c) == [accessToken |-> calls[c].accessToken, realmId |-> calls[c].realmId]

Descriptors(d) == Range(getDomainTools(d).tools)

\* C1: in gateway mode every upstream request in flight carries the credential
\* pair of the inbound request that caused it, whatever the interleaving.
CredentialIsolation ==
    \A c \in Calls :
        authMode = "gateway" /\ calls[c].pc = "awaiting" => calls[c].sent = OwnPair(c)

\* C2: when gateway-mode requests do not overlap, every upstream request carries
\* exactly the credential pair of its own request's headers, whatever pairs the
\* requests before it carried.
NonOverlappingOwnCredential ==
    /\ \A i \in 1..Len(hist) :
          hist[i].op = "upstream" => hist[i].credential = hist[i].headers
    /\ \A c \in Calls : calls[c].pc = "awaiting" => calls[c].sent = OwnPair(c)

\* Two consecutive upstream requests of different tenants, each with its own pair.
TwoTenantsInTurn ==
    /\ Len(hist) = 2
    /\ hist[1].op = "upstream" /\ hist[2].op = "upstream"
    /\ hist[1].credential # hist[2].credential
    /\ hist[2].credential = hist[2].headers

\* C3: handling a gateway-mode request never writes the process-wide credential
\* values or the shared client instance.
NoSharedCredentialWrite ==
    [][authMode = "gateway" => env' = env /\ client' = client]_vars

\* C4: a gateway-mode request lacking either credential header is rejected: it is
\* never handed to the protocol transport and causes no upstream request.
MissingHeaderRejected ==
    \A c \in Calls :
        (/\ authMode = "gateway"
         /\ calls[c].pc # "idle"
         /\ (calls[c].accessToken = Undefined \/ calls[c].realmId = Undefined))
        => calls[c].pc = "rejected" /\ calls[c].sent = NoPair

\* A request with a token but no realm id has been rejected.
RejectedWithoutRealm ==
    \E c \in Calls :
        /\ calls[c].pc = "rejected"
        /\ calls[c].accessToken = "tokA"
        /\ calls[c].realmId = Undefined

\* C5 as claimed: the failure of a rejected request names exactly the headers
\* that are missing.
RejectionNamesMissingOnly ==
    \A c \in Calls :
        calls[c].pc = "rejected" =>
            calls[c].required =
                (IF calls[c].accessToken = Undefined THEN {"X-Qbo-Access-Token"} ELSE {})
                  \cup (IF calls[c].realmId = Undefined THEN {"X-Qbo-Realm-Id"} ELSE {})

\* C5 as amended: the failure of a rejected request names both credential
\* headers as required, whichever of them is missing.
RejectionNamesBothHeaders ==
    \A c \in Calls :
        calls[c].pc = "rejected" =>
            calls[c].required = {"X-Qbo-Access-Token", "X-Qbo-Realm-Id"}

\* A request with a realm id but no token has been rejected.
RejectedWithoutToken ==
    \E c \in Calls :
        /\ calls[c].pc = "rejected"
        /\ calls[c].accessToken = Undefined
        /\ calls[c].realmId = "realmB"

\* C6: in env mode the shared client is built from the process configuration by
\* the first domain call that finds both values set, never changes afterwards,
\* and every upstream request carries its pair, even if the configuration has
\* changed since.
FixedCredentialCached ==
    [][authMode = "env" =>
        /\ client.made => client' = client
        /\ ~client.made /\ client'.made =>
              /\ env.QBO_ACCESS_TOKEN \notin {Undefined, ""}
              /\ env.QBO_REALM_ID \notin {Undefined, ""}
              /\ client'.config = [accessToken |-> env.QBO_ACCESS_TOKEN,
                                   realmId |-> env.QBO_REALM_ID]
        /\ \A c \in Calls :
              calls'[c].pc = "awaiting" =>
                  client'.made /\ calls'[c].sent = client'.config]_vars

\* Two upstream requests carry the cached pair after the configuration changed.
CachedPairOutlivesConfig ==
    /\ authMode = "env"
    /\ client.made
    /\ client.config # [accessToken |-> env.QBO_ACCESS_TOKEN, realmId |-> env.QBO_REALM_ID]
    /\ env.QBO_ACCESS_TOKEN # Undefined /\ env.QBO_REALM_ID # Undefined
    /\ \A c \in Calls : calls[c].pc = "awaiting" /\ calls[c].sent = client.config

\* C7: qbo_navigate(d1) then qbo_navigate(d2) makes the next listing exactly
\* qbo_back plus the descriptors of d2, with no descriptor that only d1 has.
NavigateReplacesDomain ==
    \A i \in 1..Len(hist) :
        (/\ i + 2 <= Len(hist)
         /\ hist[i].op = "navigate" /\ hist[i].arg \in Domain
         /\ hist[i + 1].op = "navigate" /\ hist[i + 1].arg \in Domain
         /\ hist[i + 2].op = "list")
        => /\ hist[i + 2].err = "none"
           /\ Range(hist[i + 2].res) = {backTool} \cup Descriptors(hist[i + 1].arg)
           /\ \A n \in Descriptors(hist[i].arg) \ Descriptors(hist[i + 1].arg) :
                 n \notin Range(hist[i + 2].res)

\* customers, then invoices, then a listing.
ListedAfterTwoNavigations ==
    /\ Len(hist) = 3
    /\ hist[1].op = "navigate" /\ hist[1].arg = "customers"
    /\ hist[2].op = "navigate" /\ hist[2].arg = "invoices"
    /\ hist[3].op = "list"
    /\ <<"qbo", "invoices", "list">> \in Range(hist[3].res)

\* C8: the navigation state always holds none or one of the five domains.
NavigationStateInRange == currentDomain \in {Null} \cup Domain

\* C9: a listing at Root returns exactly qbo_navigate; a listing in domain d
\* returns exactly qbo_back plus the descriptors of d, without qbo_navigate.
ListingMatchesState ==
    \A i \in 1..Len(hist) :
        hist[i].op = "list" =>
            /\ hist[i].to = Null =>
                  hist[i].err = "none" /\ Range(hist[i].res) = {navigateTool}
            /\ hist[i].to \in Domain =>
                  /\ hist[i].err = "none"
                  /\ Range(hist[i].res) = {backTool} \cup Descriptors(hist[i].to)
                  /\ navigateTool \notin Range(hist[i].res)

\* A listing in the payments domain.
ListedInDomain ==
    /\ hist # <<>>
    /\ hist[Len(hist)].op = "list"
    /\ hist[Len(hist)].to = "payments"
    /\ <<"qbo", "payments", "create">> \in Range(hist[Len(hist)].res)

\* C10: qbo_back always ends at Root, from a domain as from Root, and a listing
\* right after it returns exactly qbo_navigate.
BackLeadsToRoot ==
    \A i \in 1..Len(hist) :
        hist[i].op = "back" =>
            /\ hist[i].to = Null
            /\ hist[i].err = "none"
            /\ (i < Len(hist) /\ hist[i + 1].op = "list") =>
                  hist[i + 1].err = "none" /\ Range(hist[i + 1].res) = {navigateTool}

\* qbo_back from a domain, qbo_back again from Root, then a listing.
ListedAfterTwoBacks ==
    /\ Len(hist) = 3
    /\ hist[1].op = "back" /\ hist[2].op = "back" /\ hist[3].op = "list"
    /\ currentDomain = Null

EndsWithListing(h) == h # <<>> /\ h[Len(h)].op = "list"

OnlyNavigationMovesState ==
    [][currentDomain' # currentDomain =>
          /\ hist' # hist
          /\ hist'[Len(hist')].op \in {"navigate", "back"}
          /\ hist'[Len(hist')].to = currentDomain']_vars

\* Witness for C12: a domain operation ran after the one navigation request of
\* the session and the state is still the domain that request selected.
DomainCallKeptDomain ==
    /\ Len(hist) = 1
    /\ hist[1].op = "navigate"
    /\ hist[1].to = "invoices"
    /\ currentDomain = "invoices"
    /\ \E c \in Calls : calls[c].pc = "awaiting"
    /\ client.made

\* C13: what a domain operation does is the same whatever the navigation
\* state: from the state the program is in and from Root or any domain, the
\* handler's failure flag, the upstream request it issues, the credential it
\* sends and the shared client it leaves are equal.
DispatchIgnoresNavigation ==
    \A name \in CallNames \ {navigateTool, backTool} :
        \A cur \in Domain \cup {Null} :
            LET here == CallTool(name, NoArgs, currentDomain, client, env)
                there == CallTool(name, NoArgs, cur, client, env)
            IN  /\ here.isError = there.isError
                /\ here.upstream = there.upstream
                /\ here.credential = there.credential
                /\ here.client = there.client

\* Witness for C13: the upstream request of a domain operation is in flight
\* while the session is at Root.
UpstreamInFlightAtRoot ==
    /\ currentDomain = Null
    /\ authMode = "env"
    /\ \E c \in Calls : calls[c].pc = "awaiting" /\ calls[c].sent = client.config

\* C14: a request for a name that is neither a navigation name nor under one
\* of the five prefixes returns a failed result (not a protocol fault) whose
\* text names the operation asked for, issues no upstream request and changes
\* neither the navigation state, the shared client nor the configuration.
UnknownOperationRejected ==
    [][(hist' # hist /\ hist'[Len(hist')].op = "outside") =>
          /\ hist'[Len(hist')].err = "isError"
          /\ Len(hist'[Len(hist')].res) = 2
          /\ hist'[Len(hist')].res[2] = hist'[Len(hist')].res[1]
          /\ currentDomain' = currentDomain
          /\ client' = client
          /\ env' = env
          /\ calls' = calls]_vars

\* Witness for C14: a name outside every namespace was refused in a domain,
\* with the shared client built.
UnknownRefusedInDomain ==
    /\ hist # <<>>
    /\ hist[Len(hist)].op = "outside"
    /\ hist[Len(hist)].err = "isError"
    /\ hist[Len(hist)].res = <<<<"qbo", "payments">>, <<"qbo", "payments">>>>
    /\ currentDomain \in Domain
    /\ client.made

\* C15: every name is dispatched to one handler: at most one of the five
\* prefix tests matches it, the branch taken is that of the matching prefix
\* whatever the order of the tests, and neither navigation name matches a
\* prefix.
OneHandlerPerName ==
    probe.route # "none" =>
        /\ Cardinality(probe.matches) <= 1
        /\ \A d \in probe.matches :
               probe.route = d
        /\ probe.route \in Domain => probe.route \in probe.matches
        /\ probe.name \in {navigateTool, backTool} => probe.matches = {}

\* Witness for C15: a name under the invoices prefix went to the invoices
\* handler, the only prefix it matches.
RoutedToInvoices ==
    /\ probe.name = <<"qbo", "invoices", "">>
    /\ probe.route = "invoices"
    /\ probe.matches = {"invoices"}

AllDescriptors ==
    <<navigateTool, backTool>> \o customerTools \o invoiceTools \o expenseTools
      \o paymentTools \o reportTools

Distinct(names) ==
    \A i, j \in DOMAIN names : i # j => names[i] # names[j]

\* C16: no operation name occurs twice among the five domain lists and the two
\* navigation descriptors, every domain list is non-empty, and so every
\* listing a session receives has distinct names.
NamesGloballyUnique ==
    /\ Distinct(AllDescriptors)
    /\ \A d \in Domain : getDomainTools(d).tools # <<>>
    /\ \A i \in DOMAIN hist :
          (hist[i].op = "list" /\ hist[i].err = "none") =>
              Distinct(hist[i].res) /\ Len(hist[i].res) >= 1

\* Witness for C16: the listing in the reports domain returned qbo_back and
\* the five report descriptors.
ListedSixInReports ==
    /\ EndsWithListing(hist)
    /\ hist[Len(hist)].to = "reports"
    /\ Len(hist[Len(hist)].res) = 6

Paginating == fetch.pc \in {"loop", "awaiting", "returned", "threw"}

BatchOf(round) == Entities(round.response).items

\* The round brought a batch of at least the page size.
FullRound(round) ==
    /\ round.response.status = "ok"
    /\ round.response.hasQueryResponse
    /\ Entities(round.response).found
    /\ Len(BatchOf(round)) >= fetch.maxResults

\* The round brought a non-empty batch shorter than the page size.
ShortRound(round) ==
    /\ round.response.status = "ok"
    /\ round.response.hasQueryResponse
    /\ Entities(round.response).found
    /\ Len(BatchOf(round)) < fetch.maxResults

RECURSIVE Flatten(_)
Flatten(log) ==
    IF log = <<>> THEN <<>>
    ELSE Flatten(SubSeq(log, 1, Len(log) - 1)) \o BatchOf(log[Len(log)])

\* C17: a paginated fetch with page size s >= 1 sends, in round i, the query
\* with STARTPOSITION 1 + (i - 1) * s and MAXRESULTS s; and when it returns
\* after k full batches and one shorter batch it has sent exactly k + 1
\* queries.
CursorAdvancesByPageSize ==
    Paginating =>
        /\ \A i \in DOMAIN fetch.log :
               fetch.log[i].query =
                   [startPosition |-> 1 + (i - 1) * fetch.maxResults,
                    maxResults |-> fetch.maxResults]
        /\ (fetch.pc = "returned" /\ ShortRound(fetch.log[Len(fetch.log)])) =>
               Len(fetch.log) =
                   Cardinality({i \in DOMAIN fetch.log : FullRound(fetch.log[i])}) + 1

\* Witness for C17: page size 2, batches of 2, 2 and 1 items: three queries,
\* at positions 1, 3 and 5.
ThreeRoundsTwoFull ==
    /\ fetch.pc = "returned"
    /\ fetch.maxResults = 2
    /\ Len(fetch.log) = 3
    /\ Len(BatchOf(fetch.log[1])) = 2
    /\ Len(BatchOf(fetch.log[2])) = 2
    /\ Len(BatchOf(fetch.log[3])) = 1
    /\ fetch.log[3].query.startPosition = 5

\* C18: a paginated fetch (page size >= 1) goes on after every round that
\* brought at least page-size items and returns right after the first round
\* that brought fewer, none, no array member or no QueryResponse member; so
\* it sends one query when the first batch is short.
StopsAtFirstShortRound ==
    Paginating =>
        /\ \A i \in 1..(Len(fetch.log) - 1) : FullRound(fetch.log[i])
        /\ fetch.pc = "returned" =>
               /\ fetch.log # <<>>
               /\ fetch.log[Len(fetch.log)].response.status = "ok"
               /\ ~FullRound(fetch.log[Len(fetch.log)])
        /\ (fetch.pc = "loop" /\ fetch.log # <<>>) =>
               FullRound(fetch.log[Len(fetch.log)])
        /\ fetch.pc = "threw" =>
               fetch.log[Len(fetch.log)].response.status \in {"error", "null"}

\* Witness for C18: the first batch has one item for page size 2, and the
\* fetch returned after that one query.
ReturnedAfterShortFirstBatch ==
    /\ fetch.pc = "returned"
    /\ fetch.maxResults = 2
    /\ Len(fetch.log) = 1
    /\ ShortRound(fetch.log[1])
    /\ Len(BatchOf(fetch.log[1])) = 1

\* C19: the items a paginated fetch holds, and returns, are the batches of
\* its rounds concatenated in the order the rounds were fetched, repeated
\* items included.
ResultIsConcatenation ==
    (Paginating /\ fetch.pc # "threw") => fetch.allItems = Flatten(fetch.log)

\* Witness for C19: three batches with repeated items came back in one piece.
ReturnedThreeBatchesInOrder ==
    /\ fetch.pc = "returned"
    /\ Len(fetch.log) = 3
    /\ BatchOf(fetch.log[1]) = <<"a", "b">>
    /\ BatchOf(fetch.log[2]) = <<"b", "a">>
    /\ fetch.allItems = <<"a", "b", "b", "a", "a">>

\* C20: every query sent upstream, by a list or search handler or by a
\* paginated fetch, has STARTPOSITION >= 1 and MAXRESULTS <= MAX_PAGE_SIZE.
QueriesWithinLimits ==
    \A i \in DOMAIN fetch.log :
        /\ fetch.log[i].query.startPosition >= 1
        /\ fetch.log[i].query.maxResults <= MAX_PAGE_SIZE

\* C21 as stated: a paginated fetch started without a page size sends
\* MAXRESULTS 100 in every round, the default of the list operations.
DefaultPageSizeIsListDefault ==
    (Paginating /\ ~fetch.given) =>
        \A i \in DOMAIN fetch.log : fetch.log[i].query.maxResults = 100

\* C21, amended: a paginated fetch started without a page size sends
\* MAXRESULTS MAX_PAGE_SIZE (1000) in every round; a list operation called
\* without maxResults sends MAXRESULTS 100.
DefaultPageSizeIsMaximum ==
    /\ (Paginating /\ ~fetch.given) =>
           /\ fetch.maxResults = MAX_PAGE_SIZE
           /\ \A i \in DOMAIN fetch.log :
                  fetch.log[i].query.maxResults = MAX_PAGE_SIZE
    /\ (fetch.pc \in {"listing", "listed"} /\ ~fetch.given) =>
           fetch.log[1].query.maxResults = 100

\* Witness for C21: a fetch started without a page size has returned after
\* one round that asked for 1000 items.
ReturnedWithDefaultPageSize ==
    /\ fetch.pc = "returned"
    /\ ~fetch.given
    /\ Len(fetch.log) = 1
    /\ fetch.log[1].query.maxResults = 1000
    /\ Len(fetch.allItems) = 2

\* The fetch record a caller running alone reaches with page size s after
\* the given answers, one per round.
RECURSIVE Alone(_, _)
Alone(s, answers) ==
    IF answers = <<>> THEN getPaginatedStart(Num(s))
    ELSE LET before == Alone(s, SubSeq(answers, 1, Len(answers) - 1))
             asked == [before EXCEPT !.pc = "awaiting",
                                     !.log = Append(@, [query |-> PaginatedSql(before),
                                                        response |-> Pending])]
         IN  IF answers[Len(answers)] = Pending THEN asked
             ELSE getPaginatedRound(asked, answers[Len(answers)])

AnswersOf(f) == [i \in DOMAIN f.log |-> f.log[i].response]

\* C22: of two paginated fetches in flight together, whatever the order of
\* their rounds, each is where a fetch running alone would be after the same
\* answers: same queries (STARTPOSITION sequence), same accumulated items,
\* same point of return.
ReentrantFetches ==
    /\ fetch.pc # "idle" => fetch = Alone(fetch.maxResults, AnswersOf(fetch))
    /\ other.pc # "idle" => other = Alone(other.maxResults, AnswersOf(other))

\* Witness for C22: both fetches are waiting for the answer to their second
\* query at the same time, with different page sizes, items and cursors.
BothAwaitingSecondRound ==
    /\ fetch.pc = "awaiting" /\ other.pc = "awaiting"
    /\ fetch.maxResults = 1 /\ other.maxResults = 2
    /\ Len(fetch.log) = 2 /\ Len(other.log) = 2
    /\ fetch.allItems = <<"a">>
    /\ other.allItems = <<"b", "b">>
    /\ fetch.log[2].query.startPosition = 2
    /\ other.log[2].query.startPosition = 3

CredentialsAvailable == Truthy(env.QBO_ACCESS_TOKEN) /\ Truthy(env.QBO_REALM_ID)

\* C23: the outcome of an upstream request follows from the response status:
\* a status outside 200..299 gives an error carrying the request's method
\* and path, the status and the response body; 204 gives null and no error;
\* any other 2xx status gives what parsing the body gives, its value or,
\* for a body that is not JSON, the parser's error.
ResponseStatusDecides ==
    (opCall.pc = "done" /\ opCall.response.kind = "http") =>
        LET st == opCall.response.status
            o == opCall.outcome
        IN  /\ (st < 200 \/ st > 299) =>
                   /\ o.threw
                   /\ o.error = [kind |-> "QBO API error",
                                 method |-> opCall.request.method,
                                 path |-> opCall.request.path,
                                 status |-> st, body |-> opCall.response.body,
                                 named |-> <<>>]
            /\ st = 204 => ~o.threw /\ o.value = JNull
            /\ st \in {200, 201} =>
                   LET parsed == JsonParse(opCall.response.body)
                   IN  IF parsed.ok THEN ~o.threw /\ o.value = parsed.value
                       ELSE o.threw /\ o.error.kind = "SyntaxError"

\* Witness for C23: a query answered 401 ended in an error that carries POST,
\* the query path, 401 and the body.
QueryAnswered401 ==
    /\ opCall.pc = "done"
    /\ opCall.response = [kind |-> "http", status |-> 401, body |-> "oops"]
    /\ opCall.outcome.threw
    /\ opCall.outcome.error.method = "POST"
    /\ opCall.outcome.error.path = <<"query">>
    /\ opCall.outcome.error.status = 401
    /\ opCall.outcome.error.body = "oops"

\* C24: an operation call makes at most one upstream attempt, exactly one
\* when it got any answer (success, non-2xx, rejected fetch); a rejected
\* fetch ends the call with a failed result, and the one attempt carries the
\* shared client's credential.
NothingRetried ==
    /\ opCall.attempts <= 1
    /\ opCall.pc = "awaiting" =>
           opCall.attempts = 1 /\ opCall.request.credential = client.config
    /\ (opCall.pc = "done" /\ opCall.response.kind # "none") => opCall.attempts = 1
    /\ (opCall.pc = "done" /\ opCall.response.kind = "rejected") =>
           /\ opCall.result.isError
           /\ opCall.result.error.kind = "fetch failed"

\* Witness for C24: a create request whose fetch was rejected ended, after
\* its one attempt, in a failed result.
RejectedFetchFailedTheCall ==
    /\ opCall.pc = "done"
    /\ opCall.name = <<"qbo", "payments", "create">>
    /\ opCall.response.kind = "rejected"
    /\ opCall.attempts = 1
    /\ opCall.result.isError

\* The call meets one of the errors the handlers can raise.
ErrorCase ==
    LET r == Route(opCall.name) IN
    \/ r = "unknown"
    \/ /\ r = "navigate"
       /\ ~opCall.navArgs.present \/ opCall.navArgs.domain \notin Domain
    \/ /\ r \in Domain
       /\ \/ ~CredentialsAvailable
          \/ opCall.name \notin ToolNames
          \/ opCall.response.kind = "rejected"
          \/ /\ opCall.response.kind = "http"
             /\ \/ opCall.response.status \notin {200, 201, 204}
                \/ /\ opCall.response.status # 204
                   /\ ~JsonParse(opCall.response.body).ok

\* C25: every operation call ends in a result and never in a fault; when an
\* error was raised on the way (unknown operation, missing credentials,
\* missing or malformed navigation arguments, non-2xx answer, rejected fetch,
\* unreadable body) the result has isError: true and a message, and
\* otherwise it has not.
EveryCallEndsInResult ==
    opCall.pc = "done" =>
        /\ ~opCall.result.fault
        /\ opCall.result.text # <<>>
        /\ opCall.result.isError <=> ErrorCase
        /\ opCall.result.isError => opCall.result.error.kind # "none"

\* Witness for C25: after a navigation call that failed (it left "bogus" in
\* the navigation state) the session served another call, which was
\* answered 500 and ended in a failed result.
ServedAfterFailedCall ==
    /\ opCall.pc = "done"
    /\ currentDomain = "bogus"
    /\ opCall.response.kind = "http"
    /\ opCall.response.status = 500
    /\ opCall.result.isError
    /\ opCall.result.error.kind = "QBO API error"

\* The operations whose schema marks an argument as required.
NeedsArgument(name) ==
    /\ name \in ToolNames
    /\ name[3] \in {"get", "create", "search", "send"}

\* C26: a domain operation called without its required argument sends no
\* upstream request and ends in a failed InvalidArguments result.
MissingArgumentRefused ==
    (opCall.pc # "idle" /\ NeedsArgument(opCall.name) /\ opCall.args.id = Undefined
       /\ CredentialsAvailable) =>
        /\ opCall.attempts = 0
        /\ opCall.pc = "done"
        /\ opCall.result.isError
        /\ opCall.result.error.kind = "InvalidArguments"

Occurrences(seq, token) == Cardinality({i \in DOMAIN seq : seq[i] = token})

\* C27: the query of qbo_invoices_list has the conditions of the arguments
\* that are present, status first, then startDate, then endDate, joined by
\* AND, after WHERE exactly when there is a condition; Overdue gives the
\* positive-balance and the due-before-today condition.
InvoiceFilterInOrder ==
    (opCall.pc # "idle" /\ opCall.name = <<"qbo", "invoices", "list">>
       /\ opCall.attempts = 1) =>
        LET sql == opCall.request.sql
            a == opCall.args
            hasStatus == a.status \in {"Paid", "Unpaid", "Overdue"}
            hasStart == Truthy(a.startDate)
            hasEnd == Truthy(a.endDate)
            n == (IF hasStatus THEN 1 ELSE 0) + (IF hasStart THEN 1 ELSE 0)
                   + (IF hasEnd THEN 1 ELSE 0)
            afterStatus == IF a.status = "Overdue" THEN 6
                           ELSE IF hasStatus THEN 4 ELSE 2
            startAt == afterStatus + 1
            endAt == IF hasStart THEN startAt + 3 ELSE startAt
        IN  /\ sql[1] = "SELECT * FROM Invoice"
            /\ n = 0 => sql = <<"SELECT * FROM Invoice">>
            /\ n > 0 => sql[2] = "WHERE"
            /\ Occurrences(sql, "WHERE") = IF n > 0 THEN 1 ELSE 0
            /\ Occurrences(sql, "AND") =
                  (IF n > 0 THEN n - 1 ELSE 0) + (IF a.status = "Overdue" THEN 1 ELSE 0)
            /\ a.status = "Paid" => sql[3] = "Balance = '0'"
            /\ a.status = "Unpaid" => sql[3] = "Balance > '0'"
            /\ a.status = "Overdue" =>
                  sql[3] = "Balance > '0'" /\ sql[4] = "AND" /\ sql[5] = "DueDate < 'today'"
            /\ hasStart => sql[startAt] = "TxnDate >=" /\ sql[startAt + 1] = a.startDate
            /\ hasEnd => sql[endAt] = "TxnDate <=" /\ sql[endAt + 1] = a.endDate
            /\ Len(sql) = IF n = 0 THEN 1
                          ELSE (IF hasEnd THEN endAt + 1
                                ELSE IF hasStart THEN startAt + 1
                                ELSE afterStatus - 1)

\* Witness for C27: Overdue with both dates.
OverdueBetweenDates ==
    /\ opCall.pc = "awaiting"
    /\ opCall.request.sql =
          <<"SELECT * FROM Invoice", "WHERE", "Balance > '0'", "AND", "DueDate < 'today'",
            "AND", "TxnDate >=", "2024-01-01", "AND", "TxnDate <=", "2024-12-31">>

\* C29: with credentials available every advertised domain operation makes
\* one upstream call: a GET for the get and report operations, a POST to the
\* entity's path for create and send, a POST to the query path with the
\* query text for list and search.
OneUpstreamCallPerOperation ==
    (opCall.pc # "idle" /\ opCall.name \in ToolNames /\ CredentialsAvailable) =>
        LET req == opCall.request
            verb == opCall.name[3]
        IN  /\ opCall.attempts = 1
            /\ (verb = "get" \/ opCall.name[2] = "reports") =>
                   req.method = "GET" /\ req.sql = <<>> /\ req.path # <<"query">>
            /\ verb \in {"create", "send"} =>
                   req.method = "POST" /\ req.sql = <<>> /\ req.path # <<"query">>
            /\ verb \in {"list", "search"} =>
                   req.method = "POST" /\ req.path = <<"query">> /\ req.sql # <<>>

\* Witness for C29: qbo_invoices_send is waiting for the answer to its POST.
SendIsOnePost ==
    /\ opCall.pc = "awaiting"
    /\ opCall.name = <<"qbo", "invoices", "send">>
    /\ opCall.attempts = 1
    /\ opCall.request.method = "POST"
    /\ opCall.request.path = <<"invoice", "42", "send">>

\* C30: a qbo_navigate call that ends in a failed result leaves the
\* navigation state as it was before the call, so the listing after it equals
\* the listing before it.
FailedNavigateKeepsState ==
    [][(/\ opCall.pc = "idle"
        /\ opCall'.pc = "done"
        /\ Route(opCall'.name) = "navigate"
        /\ opCall'.result.isError) =>
           /\ currentDomain' = currentDomain
           /\ ListTools(currentDomain') = ListTools(currentDomain)]_vars

\* C28: a paginated fetch that receives a response with more than one
\* array-valued member fails with an error.
SeveralArraysFail ==
    fetch.pc \in {"loop", "awaiting", "returned", "threw"} =>
        \A i \in DOMAIN fetch.log :
            Len(fetch.log[i].response.arrays) > 1 => fetch.pc = "threw"

\* Every name some listing returns, at Root or in a domain.
Advertised == UNION {Range(ListTools(cur).tools) : cur \in Domain \cup {Null}}

\* C31: every name a listing can advertise is dispatchable: the router sends
\* each descriptor of a domain to that domain's handler, whose switch has a
\* case for it, qbo_navigate and qbo_back go to the navigation branches, and
\* no call of an advertised name ends in an unknown-tool result.
AdvertisedNamesDispatch ==
    /\ \A d \in Domain : \A n \in Descriptors(d) :
           Route(n) = d /\ n \in HandlerCases(d)
    /\ Route(navigateTool) = "navigate"
    /\ Route(backTool) = "back"
    /\ (opCall.pc # "idle" /\ opCall.name \in Advertised) =>
           /\ opCall.result.error.kind \notin {"Unknown tool", "Unknown domain tool"}
           /\ (opCall.name \in ToolNames /\ CredentialsAvailable) => opCall.attempts = 1

\* Witness for C31: the advertised qbo_expenses_list_bills was called, reached
\* the upstream service and ended without an error.
ListedBillsWereServed ==
    /\ opCall.pc = "done"
    /\ opCall.name = <<"qbo", "expenses", "list", "bills">>
    /\ opCall.name \in Advertised
    /\ opCall.response.status = 200
    /\ ~opCall.result.isError

InFlightUpstream == {c \in Calls : calls[c].pc = "awaiting"}

\* C32: a qbo_navigate, qbo_back or listing request leaves the shared client
\* and the credential configuration as they were and starts no upstream
\* request; with no credential configured (credentials from the environment)
\* qbo_back, qbo_navigate to a domain and a listing still succeed, while every
\* domain operation returns a failed result, builds no client and sends no
\* upstream request.
NavigationNeedsNoCredentials ==
    [][/\ (hist' # hist /\ hist'[Len(hist')].op \in {"navigate", "back", "list"}) =>
             LET entry == hist'[Len(hist')] IN
             /\ client' = client
             /\ env' = env
             /\ InFlightUpstream' \subseteq InFlightUpstream
             /\ (~CredentialsAvailable /\ entry.op = "back") => entry.err = "none"
             /\ (~CredentialsAvailable /\ entry.op = "navigate" /\ entry.arg \in Domain) =>
                    entry.err = "none" /\ currentDomain' = entry.arg
             /\ (~CredentialsAvailable /\ entry.op = "list"
                   /\ entry.to \in Domain \cup {Null}) => entry.err = "none"
       /\ ~CredentialsAvailable =>
             /\ ~client'.made
             /\ InFlightUpstream' = {}
             /\ \A name \in ToolNames :
                   LET out == CallTool(name, NoArgs, currentDomain, client, env) IN
                   out.isError /\ ~out.upstream /\ ~out.client.made]_vars

\* Witness for C32: with no credential configured the session navigated to
\* the invoices domain and listed it, and there is still no client.
ListedInvoicesWithoutCredentials ==
    /\ ~CredentialsAvailable
    /\ ~client.made
    /\ Len(hist) = 2
    /\ hist[1].op = "navigate" /\ hist[1].arg = "invoices" /\ hist[1].err = "none"
    /\ hist[2].op = "list" /\ hist[2].err = "none"
    /\ <<"qbo", "invoices", "send">> \in Range(hist[2].res)

EnvPair == [accessToken |-> env.QBO_ACCESS_TOKEN, realmId |-> env.QBO_REALM_ID]

\* C33: the upstream request of a domain call carries the credential pair of
\* the client its handler obtained, and while the call is suspended at the
\* upstream boundary that pair stays what it is, whatever resets of the
\* shared client and overwrites of the process-wide pair other requests make.
HeldClientFixesCredential ==
    [][\A c \in Calls :
          /\ (calls[c].pc # "awaiting" /\ calls'[c].pc = "awaiting") =>
                 client'.made /\ calls'[c].sent = client'.config
          /\ (calls[c].pc = "awaiting" /\ calls'[c].pc = "awaiting") =>
                 calls'[c].sent = calls[c].sent]_vars

\* Witness for C33: a call is suspended with tenant A's pair while a later
\* request has discarded the shared client and stored tenant B's pair.
SuspendedCallOutlivedReset ==
    /\ authMode = "gateway"
    /\ ~client.made
    /\ EnvPair = [accessToken |-> "tokB", realmId |-> "realmB"]
    /\ \E c \in Calls :
          /\ calls[c].pc = "awaiting"
          /\ calls[c].sent = [accessToken |-> "tokA", realmId |-> "realmA"]

Accepted(c) == calls[c].pc = "idle" /\ calls'[c].pc = "received"

\* C34: in gateway mode every accepted /mcp request discards the shared
\* client and stores its header pair as the process-wide pair, no other step
\* changes that pair, and a shared client that exists holds the pair of the
\* most recently accepted request.
GatewayPairIsLastAccepted ==
    [][authMode = "gateway" =>
          /\ \A c \in Calls :
                Accepted(c) => /\ EnvPair' = OwnPair(c)'
                               /\ ~client'.made
          /\ (\A c \in Calls : ~Accepted(c)) => env' = env
          /\ client'.made => client'.config = EnvPair']_vars

\* Witness for C34: tenant A's request was accepted, then tenant B's; the
\* call of A's request then built the shared client, which holds B's pair.
ClientHoldsLatestPair ==
    /\ authMode = "gateway"
    /\ client.made
    /\ client.config = [accessToken |-> "tokB", realmId |-> "realmB"]
    /\ EnvPair = client.config
    /\ \E c, d \in Calls :
          /\ calls[c].pc = "awaiting"
          /\ OwnPair(c) = [accessToken |-> "tokA", realmId |-> "realmA"]
          /\ calls[d].pc = "received"
          /\ OwnPair(d) = client.config

\* C36: when a round of a paginated fetch fails (non-2xx answer or transport
\* failure), the fetch throws: it returns no item list and the failed round
\* is its last request.
FailedRoundFailsFetch ==
    fetch.pc \in {"loop", "awaiting", "returned", "threw"} =>
        \A i \in DOMAIN fetch.log :
            fetch.log[i].response.status = "error" =>
                /\ i = Len(fetch.log)
                /\ fetch.pc = "threw"
                /\ fetch.hasMore

\* Witness for C36: the second round failed after a full first batch had
\* been collected, and the fetch threw.
ThrewAfterFullBatch ==
    /\ fetch.pc = "threw"
    /\ Len(fetch.log) = 2
    /\ fetch.log[2].response.status = "error"
    /\ Len(fetch.allItems) = fetch.maxResults
    /\ fetch.maxResults = 2

\* The fetch against the fixed store as far as it has come: no failure, the
\* round i asks for the positions from (i-1)*s+1, never more than
\* floor(N/s)+1 requests, and on return exactly that many, the result equal
\* to the store, and an empty last batch when N is a positive multiple of s.
StoreFetchSoFar ==
    fetch.pc # "idle" =>
        LET s == fetch.maxResults
            N == Len(store)
            rounds == Len(fetch.log)
        IN  /\ fetch.pc # "threw"
            /\ rounds <= (N \div s) + 1
            /\ fetch.pc = "loop" => rounds <= N \div s
            /\ \A i \in DOMAIN fetch.log :
                  fetch.log[i].query = [startPosition |-> (i - 1) * s + 1, maxResults |-> s]
            /\ fetch.pc = "returned" =>
                  /\ rounds = (N \div s) + 1
                  /\ fetch.allItems = store
                  /\ (N > 0 /\ N % s = 0) =>
                        Entities(fetch.log[rounds].response).items = <<>>

\* C35: for every page size s >= 1 and every upstream service that holds N
\* entities and answers each round with the entities at the positions asked
\* for, the paginated fetch terminates, after exactly floor(N/s)+1 requests,
\* and returns the N entities once each in position order; when N is a
\* positive multiple of s the last request gets an empty batch.
FetchesWholeStore == []StoreFetchSoFar /\ <>(fetch.pc = "returned")

\* Witness for C35: four entities fetched in pages of two: three requests,
\* the last one answered with an empty batch.
FetchedFourInPagesOfTwo ==
    /\ fetch.pc = "returned"
    /\ Len(store) = 4
    /\ fetch.maxResults = 2
    /\ Len(fetch.log) = 3
    /\ fetch.allItems = <<1, 2, 3, 4>>
    /\ Entities(fetch.log[3].response).items = <<>>

Refused == {"rejected", "health", "notfound"}

\* C37: in gateway mode a request that is rejected for a missing credential
\* header, a /health request and a request to an unknown path leave the
\* shared client, the process-wide credential pair and the navigation state
\* as they were, and such a request only ends: it never reaches the protocol
\* transport; only a request lacking a header is rejected.
RefusedRequestsTouchNothing ==
    [][\A c \in Calls :
          /\ (calls[c].pc = "idle" /\ calls'[c].pc \in Refused) =>
                 /\ client' = client
                 /\ env' = env
                 /\ currentDomain' = currentDomain
          /\ (calls[c].pc \in Refused /\ calls'[c] # calls[c]) => calls'[c] = IdleCall
          /\ calls'[c].pc = "rejected" =>
                 Falsy(calls'[c].accessToken) \/ Falsy(calls'[c].realmId)]_vars

\* Witness for C37: with a shared client in place and the session in a
\* domain, one request without a token has been rejected and a /health
\* request without any credential header has been answered.
RefusedBesideLiveClient ==
    /\ client.made
    /\ currentDomain = "customers"
    /\ \E c, d \in Calls :
          /\ calls[c].pc = "rejected"
          /\ calls[c].accessToken = Undefined
          /\ calls[d].pc = "health"
          /\ OwnPair(d) = NoPair

====
